---- MODULE Spec2Model ----
(***************************************************************************)
(* Sealed-PDF generation and evidence hashing (src/utils/sealPdf.ts).      *)
(*                                                                         *)
(* Text is a sequence of glyphs (one-character strings; a fixed label of   *)
(* the source is one glyph).  Lengths and coordinates are in hundredths of *)
(* a PDF point, so that the A4 sheet (595.28 x 841.89) is integral.        *)
(***************************************************************************)
EXTENDS Integers, Sequences, FiniteSets, TLC

VARIABLES
    input,          \* makeSealedPdf: the SealInput argument
    pc,             \* makeSealedPdf: position (the awaits and the blocks between them)
    pdf,            \* makeSealedPdf: pages of the PDFDocument, each a sequence of draw operations
    font,           \* makeSealedPdf: the embedded font
    pageCount,      \* makeSealedPdf: const pageCount (line 36)
    partialHash,    \* makeSealedPdf: const partialHash (line 38)
    qrPayload,      \* makeSealedPdf: the qrPayload object
    qrDataUrl,      \* makeSealedPdf: const qrDataUrl (line 49)
    breakCursors,   \* history: value of currentY at each page break of the body
    events,         \* history: order of the QR / page-count events of the run
    result,         \* makeSealedPdf: the bytes returned
    error,          \* makeSealedPdf: the step whose failure rejected the promise
    messages,       \* App: useState messages
    uploadedFiles,  \* App: useState uploadedFiles
    isDbLoaded,     \* App: useState isDbLoaded
    hashJobs,       \* App: the sha512OfFile promises still pending
    seal,           \* performSealingProcess: position, closure snapshot and locals
    storageObjects, \* Firebase storage: objects written by uploadBytes
    firestoreDocs,  \* Firestore: documents written by setDoc
    sealResult,     \* performSealingProcess: the value the last call returned
    downloads,      \* downloadBlob: the byte sequences handed to the browser
    counters,       \* history: number of uploads, hash jobs and seals so far
    runs,           \* history: input and pages of the earlier calls of makeSealedPdf
    chat,           \* handleSendMessage: position and locals of the call in flight
    currentPage,    \* App: useState currentPage
    idb,            \* IndexedDB: the arguments of the last idb.saveCase
    loadingState,   \* App: useState loadingState
    isComplexMode,  \* App: useState isComplexMode
    proxy,          \* functions/index.js: the request in hand, upstream calls, responses
    sw              \* service worker: cache storage, the event in hand, what the client got

pdfVars == <<input, pc, pdf, font, pageCount, partialHash, qrPayload, qrDataUrl,
             breakCursors, events, result, error>>

appVars == <<messages, uploadedFiles, isDbLoaded, hashJobs, seal, storageObjects,
             firestoreDocs, sealResult, downloads, counters, runs, chat,
             currentPage, idb, loadingState, isComplexMode, proxy, sw>>

vars == <<pdfVars, appVars>>

None == <<"none">>
NoError == "none"
NoFont == "none"
NoBytes == <<-1>>

(***************************************************************************)
(* Bounds of the model.                                                    *)
(***************************************************************************)
MaxEvidence == 24
MaxBodyLines == 148
MaxBlankLines == 100

(***************************************************************************)
(* Text helpers.                                                           *)
(***************************************************************************)
Pt(n) == n * 100

DigitChars == <<"0", "1", "2", "3", "4", "5", "6", "7", "8", "9">>

HexChars == <<"0", "1", "2", "3", "4", "5", "6", "7", "8", "9", "a", "b", "c", "d", "e", "f">>

RECURSIVE DecStr(_)
DecStr(n) ==
    IF n < 10 THEN <<DigitChars[n + 1]>>
    ELSE DecStr(n \div 10) \o <<DigitChars[(n % 10) + 1]>>

DigitVal(c) == CHOOSE d \in 0..9 : DigitChars[d + 1] = c

RECURSIVE ParseDec(_)
ParseDec(s) ==
    IF Len(s) = 0 THEN 0
    ELSE ParseDec(SubSeq(s, 1, Len(s) - 1)) * 10 + DigitVal(s[Len(s)])

Rep(s, n) == [i \in 1..(n * Len(s)) |-> s[((i - 1) % Len(s)) + 1]]

\* String.prototype.split on a one-character separator: the pieces between
\* consecutive separators, empty pieces included; k separators give k+1 pieces.
\* The pieces of s[lo..hi]: the pieces of the two halves, the last piece of the
\* first half continuing into the first piece of the second.
RECURSIVE SplitRange(_, _, _, _)
SplitRange(s, sep, lo, hi) ==
    IF lo > hi THEN <<<<>>>>
    ELSE IF lo = hi THEN (IF s[lo] = sep THEN <<<<>>, <<>>>> ELSE <<<<s[lo]>>>>)
    ELSE LET mid == (lo + hi) \div 2
             l == SplitRange(s, sep, lo, mid)
             r == SplitRange(s, sep, mid + 1, hi)
         IN  SubSeq(l, 1, Len(l) - 1) \o <<l[Len(l)] \o r[1]>> \o Tail(r)

Split(s, sep) == SplitRange(s, sep, 1, Len(s))

RECURSIVE TrimStart(_)
TrimStart(s) ==
    IF Len(s) > 0 /\ s[1] = " " THEN TrimStart(Tail(s)) ELSE s

RECURSIVE TrimEnd(_)
TrimEnd(s) ==
    IF Len(s) > 0 /\ s[Len(s)] = " " THEN TrimEnd(SubSeq(s, 1, Len(s) - 1)) ELSE s

Trim(s) == TrimEnd(TrimStart(s))

Substring(s, from, to) == SubSeq(s, from + 1, IF to < Len(s) THEN to ELSE Len(s))

(***************************************************************************)
(* stringToHash: a 64-byte digest rendered as 128 lowercase hex characters.*)
(* The compression function is a toy one; what the model keeps is that the *)
(* digest is a function of the bytes and of nothing else.                  *)
(***************************************************************************)
DigestBytes == 64

\* A position-weighted checksum of the bytes lo..hi.
RECURSIVE Mix(_, _, _)
Mix(data, lo, hi) ==
    IF lo > hi THEN 0
    ELSE IF lo = hi THEN ((data[lo] + 1) * ((lo % 251) + 1)) % 65521
    ELSE LET mid == (lo + hi) \div 2
         IN  (Mix(data, lo, mid) + Mix(data, mid + 1, hi)) % 65521

SubtleDigest(data) ==
    LET h == (Mix(data, 1, Len(data)) + 7 * Len(data) + 211) % 65521
    IN  [k \in 1..DigestBytes |-> (h * (2 * k + 1) + k * k) % 256]

ByteToHex(b) == <<HexChars[(b \div 16) + 1], HexChars[(b % 16) + 1]>>

RECURSIVE JoinHex(_, _)
JoinHex(hashArray, i) ==
    IF i > Len(hashArray) THEN <<>>
    ELSE ByteToHex(hashArray[i]) \o JoinHex(hashArray, i + 1)

stringToHash(data) == JoinHex(SubtleDigest(data), 1)

(***************************************************************************)
(* Font metrics: Helvetica glyph widths in 1/1000 em.                      *)
(***************************************************************************)
WidthOfChar(c) ==
    CASE c = " " -> 278
      [] c = "i" -> 222
      [] c = "W" -> 944
      [] OTHER   -> 556

RECURSIVE GlyphUnits(_, _, _)
GlyphUnits(text, lo, hi) ==
    IF lo > hi THEN 0
    ELSE IF lo = hi THEN WidthOfChar(text[lo])
    ELSE LET mid == (lo + hi) \div 2
         IN  GlyphUnits(text, lo, mid) + GlyphUnits(text, mid + 1, hi)

widthOfTextAtSize(text, size) == (GlyphUnits(text, 1, Len(text)) * size) \div 10

(***************************************************************************)
(* Page geometry and the layout constants of makeSealedPdf.                *)
(***************************************************************************)
PageWidth == 59528
PageHeight == 84189
SummaryBottomLow == Pt(70)
SummaryBottom == Pt(100)
x == Pt(50)
fontSize == 10
lineHeight == Pt(14)
bottomMargin == Pt(80)
topMargin == Pt(80)
maxWidth == PageWidth - 2 * x
qrw == Pt(120)

DrawText(text, px, py, size) ==
    [op |-> "text", text |-> text, x |-> px, y |-> py, size |-> size]

DrawImage(image, px, py, w, h) ==
    [op |-> "image", image |-> image, x |-> px, y |-> py, width |-> w, height |-> h]

OnLastPage(doc, drawOp) == [doc EXCEPT ![Len(doc)] = Append(@, drawOp)]

footerText == <<"(tm) Patent Pending Verum Omnis">>

drawPageFurniture(page, partial) ==
    LET hashText == IF partial # None /\ partial # <<>>
                    THEN <<" | Evidence Hash: ">> \o partial \o <<"...">>
                    ELSE <<>>
    IN  Append(page, DrawText(footerText \o hashText, Pt(50), Pt(40), 8))

PrimaryHash(evidence) ==
    IF Len(evidence) > 0 /\ evidence[1].sha512 # <<>> THEN evidence[1].sha512 ELSE None

PartialHashWhole(evidence) == PrimaryHash(evidence)

PartialHash(evidence) ==
    IF PrimaryHash(evidence) # None THEN Substring(PrimaryHash(evidence), 0, 16) ELSE None

(***************************************************************************)
(* The QR payload: JSON.stringify, QRCode.toDataURL and pdf.embedPng.  The *)
(* image carries the JSON text that existed when it was generated.         *)
(***************************************************************************)
RECURSIVE MapField(_, _, _)
MapField(evidence, field, i) ==
    IF i > Len(evidence) THEN <<>>
    ELSE <<IF field = "name" THEN evidence[i].name ELSE evidence[i].sha512>>
         \o MapField(evidence, field, i + 1)

\* A payload built from the entries that fit the summary page only.
BuildQrPayloadOfDrawn(in, count) ==
    LET drawn == SubSeq(in.evidence, 1, IF Len(in.evidence) < 22 THEN Len(in.evidence) ELSE 22)
    IN  [sha512       |-> MapField(drawn, "sha512", 1),
         filenames    |-> MapField(drawn, "name", 1),
         utcTimestamp |-> in.utcTimestamp,
         appVersion   |-> in.appVersion,
         pageCount    |-> count]

BuildQrPayload(in, count) ==
    [sha512       |-> MapField(in.evidence, "sha512", 1),
     filenames    |-> MapField(in.evidence, "name", 1),
     utcTimestamp |-> in.utcTimestamp,
     appVersion   |-> in.appVersion,
     pageCount    |-> count]

JSONStringify(payload) ==
    <<<<"sha512", payload.sha512>>,
      <<"filenames", payload.filenames>>,
      <<"utcTimestamp", payload.utcTimestamp>>,
      <<"appVersion", payload.appVersion>>,
      <<"pageCount", DecStr(payload.pageCount)>>>>

JSONField(json, key) ==
    LET k == CHOOSE j \in 1..Len(json) : json[j][1] = key IN json[k][2]

QRCodeToDataURL(json) == [type |-> "data:image/png", qr |-> json]

embedPng(dataUrl) == [type |-> "png", qr |-> dataUrl.qr]

(***************************************************************************)
(* Page 1: title and evidence summary (lines 51-72).                       *)
(***************************************************************************)
EntryFitsWithSlack(y) == ~(y < SummaryBottom + Pt(26))

\* A cursor kept outside the function: a later call starts where the last one ended.
EntryFitsFirstCallOnly(y) == ~(y < SummaryBottom) /\ runs = <<>>

EntryFits(y) == ~(y < SummaryBottom)

RECURSIVE DrawEvidence(_, _, _, _)
DrawEvidence(evidence, i, page, y) ==
    IF i > Len(evidence) THEN page
    ELSE IF ~EntryFits(y) THEN DrawEvidence(evidence, i + 1, page, y)
    ELSE LET ev == evidence[i]
             p1 == Append(page, DrawText(<<"* ">> \o ev.name, Pt(60), y, 10))
             p2 == Append(p1, DrawText(<<"  SHA-512: ">> \o ev.sha512, Pt(60), y - Pt(12), 9))
         IN  DrawEvidence(evidence, i + 1, p2, y - Pt(12) - Pt(14))

SummaryPage(in, partial) ==
    LET p0 == drawPageFurniture(<<>>, partial)
        p1 == Append(p0, DrawText(<<"Verum Omnis V5">>, Pt(50), PageHeight - Pt(80), 24))
        p2 == Append(p1, DrawText(IF in.title # <<>> THEN in.title
                                  ELSE <<"Sealed Forensic Report">>,
                                  Pt(50), PageHeight - Pt(120), 18))
        p3 == Append(p2, DrawText(<<"Evidence & Hashes:">>, Pt(50), PageHeight - Pt(165), 12))
    IN  DrawEvidence(in.evidence, 1, p3, PageHeight - Pt(185))

(***************************************************************************)
(* Page 2 onwards: the body, word-wrapped and paginated (lines 74-133).    *)
(* A layout state is [pdf, currentY, breaks]; currentPage is the last page.*)
(***************************************************************************)
HasBodyDefined(in) == in.messagesHtml # None

HasBody(in) == in.messagesHtml # <<>>

NeedsPageBreakAtZero(currentY) == currentY < 0

NeedsPageBreak(currentY) == currentY < bottomMargin

OverflowsPageWidth(testWidth) == testWidth > PageWidth

Overflows(testWidth) == testWidth > maxWidth

NewBodyPage(st, partial) ==
    [pdf      |-> Append(st.pdf, drawPageFurniture(<<>>, partial)),
     currentY |-> PageHeight - topMargin,
     breaks   |-> Append(st.breaks, st.currentY)]

EmitLine(st, line, partial) ==
    LET s1 == IF NeedsPageBreak(st.currentY) THEN NewBodyPage(st, partial) ELSE st
    IN  [pdf      |-> OnLastPage(s1.pdf, DrawText(line, x, s1.currentY, fontSize)),
         currentY |-> s1.currentY - lineHeight,
         breaks   |-> s1.breaks]

\* A blank line that moves the cursor and skips the page-break check.
BlankLineUnchecked(st, partial) == [st EXCEPT !.currentY = @ - lineHeight]

BlankLine(st, partial) ==
    LET s1 == [st EXCEPT !.currentY = @ - lineHeight]
    IN  IF NeedsPageBreak(s1.currentY) THEN NewBodyPage(s1, partial) ELSE s1

RECURSIVE WrapWords(_, _, _, _, _)
WrapWords(words, i, line, st, partial) ==
    IF i > Len(words)
    THEN IF Len(line) > 0 THEN EmitLine(st, line, partial) ELSE st
    ELSE LET word == words[i]
             testLine == IF Len(line) = 0 THEN word ELSE line \o <<" ">> \o word
             testWidth == widthOfTextAtSize(testLine, fontSize)
         IN  IF Overflows(testWidth)
             THEN WrapWords(words, i + 1, word, EmitLine(st, line, partial), partial)
             ELSE WrapWords(words, i + 1, testLine, st, partial)

RenderParagraph(paragraph, st, partial) ==
    IF Trim(paragraph) = <<>>
    THEN BlankLine(st, partial)
    ELSE WrapWords(Split(paragraph, " "), 1, <<>>, st, partial)

\* for (const paragraph of paragraphs): the paragraphs lo..hi in order.  The
\* range is split in halves, and the first half is evaluated (by the test on
\* its cursor, which is never negative) before the second half starts from it.
RECURSIVE RenderParagraphs(_, _, _, _, _)
RenderParagraphs(paragraphs, lo, hi, st, partial) ==
    IF lo > hi THEN st
    ELSE IF lo = hi THEN RenderParagraph(paragraphs[lo], st, partial)
    ELSE LET mid == (lo + hi) \div 2
             firstHalf == RenderParagraphs(paragraphs, lo, mid, st, partial)
         IN  IF firstHalf.currentY >= 0
             THEN RenderParagraphs(paragraphs, mid + 1, hi, firstHalf, partial)
             ELSE firstHalf

RenderBody(doc, in, partial) ==
    LET first == Append(drawPageFurniture(<<>>, partial),
                        DrawText(<<"Conversation Excerpt:">>, Pt(50), PageHeight - Pt(80), 12))
        st0 == [pdf |-> Append(doc, first), currentY |-> PageHeight - Pt(100), breaks |-> <<>>]
        paragraphs == Split(in.messagesHtml, "\n")
    IN  RenderParagraphs(paragraphs, 1, Len(paragraphs), st0, partial)

(***************************************************************************)
(* Final sealing page (lines 136-159) and pdf.save (line 161).             *)
(***************************************************************************)
FinalPage(partial) ==
    Append(drawPageFurniture(<<>>, partial),
           DrawText(<<"Sealing Metadata">>, Pt(50), PageHeight - Pt(80), 14))

\* The lines written with the count taken at line 36 instead of the final one.
MetaLinesEarlyCount(in, finalPageCount) ==
    <<<<"Local Timestamp: ">> \o in.localTimestamp,
      <<"UTC Timestamp: ">> \o in.utcTimestamp,
      <<"Version: ">> \o in.appVersion,
      <<"Files: ">> \o DecStr(Len(in.evidence)),
      <<"Page Count: ">> \o DecStr(pageCount)>>

MetaLines(in, finalPageCount) ==
    <<<<"Local Timestamp: ">> \o in.localTimestamp,
      <<"UTC Timestamp: ">> \o in.utcTimestamp,
      <<"Version: ">> \o in.appVersion,
      <<"Files: ">> \o DecStr(Len(in.evidence)),
      <<"Page Count: ">> \o DecStr(finalPageCount)>>

RECURSIVE DrawMeta(_, _, _, _)
DrawMeta(doc, meta, i, my) ==
    IF i > Len(meta) THEN doc
    ELSE DrawMeta(OnLastPage(doc, DrawText(meta[i], Pt(50), my, 11)), meta, i + 1, my - Pt(14))

GlyphCode(c) ==
    IF \E k \in 1..16 : HexChars[k] = c
    THEN 48 + (CHOOSE k \in 1..16 : HexChars[k] = c)
    ELSE WidthOfChar(c) % 256

RECURSIVE TextCode(_, _, _)
TextCode(text, lo, hi) ==
    IF lo > hi THEN 0
    ELSE IF lo = hi THEN (GlyphCode(text[lo]) * ((lo % 7) + 1)) % 256
    ELSE LET mid == (lo + hi) \div 2
         IN  (TextCode(text, lo, mid) + TextCode(text, mid + 1, hi)) % 256

OpBytes(drawOp) ==
    IF drawOp.op = "text"
    THEN <<drawOp.x % 256, drawOp.y % 256, drawOp.size, TextCode(drawOp.text, 1, Len(drawOp.text))>>
    ELSE <<drawOp.x % 256, drawOp.y % 256, drawOp.width % 256,
           TextCode(JSONField(drawOp.image.qr, "pageCount"), 1,
                    Len(JSONField(drawOp.image.qr, "pageCount")))>>

RECURSIVE PageBytes(_, _)
PageBytes(page, i) ==
    IF i > Len(page) THEN <<>> ELSE OpBytes(page[i]) \o PageBytes(page, i + 1)

RECURSIVE Save(_, _)
Save(doc, i) ==
    IF i > Len(doc) THEN <<>>
    ELSE <<Len(doc[i])>> \o PageBytes(doc[i], 1) \o Save(doc, i + 1)

(***************************************************************************)
(* Inputs of makeSealedPdf.                                                *)
(***************************************************************************)
NameOf(i) == <<"f">> \o DecStr(i) \o <<".txt">>

EvidenceList(n, kind) ==
    [i \in 1..n |->
        [name   |-> IF kind = "same" THEN NameOf(1) ELSE NameOf(i),
         sha512 |-> IF kind = "firstEmpty" /\ i = 1 THEN <<>>
                    ELSE IF kind = "same" THEN stringToHash(<<1>>)
                    ELSE stringToHash(<<i>>)]]

Lines(n) == [i \in 1..(2 * n - 1) |-> IF i % 2 = 1 THEN "a" ELSE "\n"]

WordsOf(word, n) ==
    [i \in 1..(n * (Len(word) + 1) - 1) |->
        IF i % (Len(word) + 1) = 0 THEN " " ELSE word[i % (Len(word) + 1)]]

MaxWords == 30
WideWord == Rep(<<"W">>, 53)
OrdinaryWord == Rep(<<"a">>, 9)

Bodies ==
    { Lines(n) : n \in 0..MaxBodyLines }
    \cup { Rep(<<"\n">>, n) : n \in 1..MaxBlankLines }
    \cup { Lines(n) \o <<"\n", "\n", "a">> : n \in 45..49 }
    \cup { WordsOf(OrdinaryWord, n) : n \in 1..MaxWords }
    \cup { <<" ">>, <<" ", "a">>, <<"a", " ", " ", "i">>,
           WideWord,
           WideWord \o <<" ", "a">>,
           <<"a", " ">> \o WideWord,
           <<"a", "i", " ">> \o WideWord \o <<" ", "a", "\n", "i">>,
           WordsOf(OrdinaryWord, 9) \o <<" ">> \o WideWord }

SealInput(title, body, evidence) ==
    [title          |-> title,
     messagesHtml   |-> body,
     evidence       |-> evidence,
     utcTimestamp   |-> <<"2024-01-01T00:00:00.000Z">>,
     localTimestamp |-> <<"1/1/2024, 12:00:00 AM UTC">>,
     appVersion     |-> <<"5.1.0">>]

Inputs ==
    { SealInput(t, b, EvidenceList(n, k)) :
        t \in {<<>>, <<"Sealed Document Manifest">>},
        b \in {<<>>, Lines(2)},
        n \in 0..MaxEvidence,
        k \in {"distinct", "firstEmpty", "same"} }
    \cup
    { SealInput(<<"Sealed Forensic Report">>, b, EvidenceList(1, "distinct")) :
        b \in Bodies }

AppIdle ==
    /\ messages = <<>>
    /\ uploadedFiles = <<>>
    /\ isDbLoaded = FALSE
    /\ hashJobs = {}
    /\ seal = [pc |-> "idle"]
    /\ storageObjects = {}
    /\ firestoreDocs = {}
    /\ sealResult = [kind |-> "none"]
    /\ downloads = <<>>
    /\ counters = [uploads |-> 0, jobs |-> 0, seals |-> 0, sends |-> 0, navigations |-> 0]
    /\ runs = <<>>
    /\ chat = [pc |-> "idle"]
    /\ currentPage = "firewall"
    /\ idb = [kind |-> "none"]
    /\ loadingState = "idle"

\* No request is in the hands of a proxy function or of the service worker.
ServicesIdle ==
    /\ proxy = [pc |-> "idle"]
    /\ sw = [pc |-> "idle"]

(***************************************************************************)
(* makeSealedPdf as a process: one action per await and per block between. *)
(***************************************************************************)
PdfIdle ==
    /\ pc = "idle"
    /\ pdf = <<>>
    /\ font = NoFont
    /\ pageCount = 0
    /\ partialHash = None
    /\ qrPayload = None
    /\ qrDataUrl = None
    /\ breakCursors = <<>>
    /\ events = <<>>
    /\ result = NoBytes
    /\ error = NoError

Create ==
    /\ pc = "create"
    /\ pdf' = <<>>
    /\ pc' = "embedFont"
    /\ UNCHANGED <<input, font, pageCount, partialHash, qrPayload, qrDataUrl,
                   breakCursors, events, result, error>>
    /\ UNCHANGED appVars

EmbedFont ==
    /\ pc = "embedFont"
    /\ font' = "Helvetica"
    /\ pageCount' = Len(pdf)
    /\ partialHash' = PartialHash(input.evidence)
    /\ qrPayload' = BuildQrPayload(input, Len(pdf))
    /\ pc' = "toDataURL"
    /\ UNCHANGED <<input, pdf, qrDataUrl, breakCursors, events, result, error>>
    /\ UNCHANGED appVars

ToDataURL ==
    /\ pc = "toDataURL"
    /\ qrDataUrl' = QRCodeToDataURL(JSONStringify(qrPayload))
    /\ events' = Append(events, "qrGenerated")
    /\ pc' = "summary"
    /\ UNCHANGED <<input, pdf, font, pageCount, partialHash, qrPayload,
                   breakCursors, result, error>>
    /\ UNCHANGED appVars

RenderSummaryPage ==
    /\ pc = "summary"
    /\ pdf' = Append(pdf, SummaryPage(input, partialHash))
    /\ pc' = "body"
    /\ UNCHANGED <<input, font, pageCount, partialHash, qrPayload, qrDataUrl,
                   breakCursors, events, result, error>>
    /\ UNCHANGED appVars

RenderBodyPages ==
    /\ pc = "body"
    /\ IF HasBody(input)
       THEN LET st == RenderBody(pdf, input, partialHash)
            IN  /\ pdf' = st.pdf
                /\ breakCursors' = st.breaks
       ELSE UNCHANGED <<pdf, breakCursors>>
    /\ pc' = "finalPage"
    /\ UNCHANGED <<input, font, pageCount, partialHash, qrPayload, qrDataUrl,
                   events, result, error>>
    /\ UNCHANGED appVars

AddFinalPage ==
    /\ pc = "finalPage"
    /\ pdf' = Append(pdf, FinalPage(partialHash))
    /\ events' = Append(events, "lastPageAdded")
    /\ pc' = "embedPng"
    /\ UNCHANGED <<input, font, pageCount, partialHash, qrPayload, qrDataUrl,
                   breakCursors, result, error>>
    /\ UNCHANGED appVars

EmbedPng ==
    /\ pc = "embedPng"
    /\ pdf' = OnLastPage(pdf, DrawImage(embedPng(qrDataUrl), PageWidth - Pt(50) - qrw,
                                        Pt(50), qrw, qrw))
    /\ events' = Append(events, "qrEmbedded")
    /\ pc' = "meta"
    /\ UNCHANGED <<input, font, pageCount, partialHash, qrPayload, qrDataUrl,
                   breakCursors, result, error>>
    /\ UNCHANGED appVars

WriteMeta ==
    /\ pc = "meta"
    /\ LET finalPageCount == Len(pdf)
       IN  /\ qrPayload' = [qrPayload EXCEPT !.pageCount = finalPageCount]
           /\ pdf' = DrawMeta(pdf, MetaLines(input, finalPageCount), 1, PageHeight - Pt(110))
    /\ events' = Append(events, "pageCountWritten")
    /\ pc' = "save"
    /\ UNCHANGED <<input, font, pageCount, partialHash, qrDataUrl,
                   breakCursors, result, error>>
    /\ UNCHANGED appVars

SavePdf ==
    /\ pc = "save"
    /\ result' = Save(pdf, 1)
    /\ pc' = "done"
    /\ UNCHANGED <<input, pdf, font, pageCount, partialHash, qrPayload, qrDataUrl,
                   breakCursors, events, error>>
    /\ UNCHANGED appVars

Reject ==
    /\ pc \in {"embedFont", "toDataURL", "embedPng", "save"}
    /\ error' = pc
    /\ pc' = "failed"
    /\ UNCHANGED <<input, pdf, font, pageCount, partialHash, qrPayload, qrDataUrl,
                   breakCursors, events, result>>
    /\ UNCHANGED appVars

PdfNext ==
    \/ Create
    \/ EmbedFont
    \/ ToDataURL
    \/ RenderSummaryPage
    \/ RenderBodyPages
    \/ AddFinalPage
    \/ EmbedPng
    \/ WriteMeta
    \/ SavePdf
    \/ Reject

\* The caller keeps what the call produced and calls makeSealedPdf again with
\* the same argument.
CallAgain ==
    /\ pc = "done"
    /\ runs = <<>>
    /\ runs' = Append(runs, [input |-> input, pdf |-> pdf, breakCursors |-> breakCursors])
    /\ pc' = "create"
    /\ pdf' = <<>>
    /\ font' = NoFont
    /\ pageCount' = 0
    /\ partialHash' = None
    /\ qrPayload' = None
    /\ qrDataUrl' = None
    /\ breakCursors' = <<>>
    /\ events' = <<>>
    /\ result' = NoBytes
    /\ error' = NoError
    /\ UNCHANGED <<input, messages, uploadedFiles, isDbLoaded, hashJobs, seal, storageObjects,
                   firestoreDocs, sealResult, downloads, counters, chat, currentPage, idb,
                   loadingState, isComplexMode, proxy, sw>>

PdfTwiceNext ==
    \/ PdfNext
    \/ CallAgain

InitPdf ==
    /\ input \in Inputs
    /\ pc = "create"
    /\ pdf = <<>>
    /\ font = NoFont
    /\ pageCount = 0
    /\ partialHash = None
    /\ qrPayload = None
    /\ qrDataUrl = None
    /\ breakCursors = <<>>
    /\ events = <<>>
    /\ result = NoBytes
    /\ error = NoError
    /\ AppIdle
    /\ isComplexMode = FALSE
    /\ ServicesIdle

SpecPdf == InitPdf /\ [][PdfNext]_vars

SpecPdfTwice == InitPdf /\ [][PdfTwiceNext]_vars

(***************************************************************************)
(* App (the component that follows makeSealedPdf in src/utils/sealPdf.ts): *)
(* evidence upload and hashing, and performSealingProcess.                 *)
(***************************************************************************)
MaxUserActions == 2

APP_VERSION == <<"5.1.0">>

ShaPlaceholder == "[Placeholder for SHA-512 hash of this report]"
CloudPlaceholder == "[Placeholder for Cloud Anchor]"
FirestorePlaceholder == "[Placeholder for Firestore Record]"

FileNames == {"a.txt", "b.txt"}

FileBytes(name) == IF name = "a.txt" THEN <<104, 105, 10>> ELSE <<>>

\* A file of the same name, modification time and size as a.txt, with other bytes.
AlteredBytes == <<104, 111, 10>>

BrowserFile(name, bytes) ==
    [name |-> name, lastModified |-> 0, size |-> Len(bytes), bytes |-> bytes]

FileLists ==
    { <<BrowserFile("a.txt", FileBytes("a.txt")), BrowserFile("b.txt", FileBytes("b.txt"))>>,
      <<BrowserFile("a.txt", AlteredBytes)>> }

sha512OfFile(file) == stringToHash(file.bytes)

NewUploadedFile(file) ==
    [id       |-> <<file.name, "-">> \o DecStr(file.lastModified) \o <<"-">> \o DecStr(file.size),
     name     |-> <<file.name>>,
     file     |-> file,
     size     |-> file.size,
     sha512   |-> <<>>]

NoSealingMetadata == [sha512 |-> <<>>, cloudAnchor |-> [status |-> "none"]]

ChatMessage(id, author, content) ==
    [id |-> id, author |-> author, content |-> content, sealingMetadata |-> NoSealingMetadata]

WelcomeMessage == ChatMessage("initial", "AI", <<"Welcome to Verum Omnis V5.">>)

SealContainer(fileCount) ==
    <<"I have received your ">> \o DecStr(fileCount)
    \o <<" document(s) and they are ready to be sealed.", "\n", "\n",
          "## Sealing Metadata", "\n",
          "- ", "Certified SHA-512 Hash: ", ShaPlaceholder, "\n",
          "- ", "Cloud Anchor: ", CloudPlaceholder, "\n",
          "- ", "Firestore Record: ", FirestorePlaceholder, "\n",
          "- ", "QR Metadata: {created_at: [Timestamp], file_count: ">> \o DecStr(fileCount)
    \o <<", hash: [SHA-512 Placeholder]}", "\n", "(tm) Patent Pending Verum Omnis">>

SealContainerContent == SealContainer(1)

ReportContent ==
    <<"## Key Findings", "\n", "a", " ", "a", "i", "\n", "\n",
      "## Sealing Metadata", "\n",
      "- ", "Certified SHA-512 Hash: ", ShaPlaceholder, "\n",
      "- ", "Cloud Anchor: ", CloudPlaceholder, "\n",
      "- ", "Firestore Record: ", FirestorePlaceholder, "\n",
      "Verify against ", ShaPlaceholder>>

SavedFile(name, hashed) ==
    [id       |-> <<name, "-", "0", "-">> \o DecStr(Len(FileBytes(name))),
     name     |-> <<name>>,
     size     |-> Len(FileBytes(name)),
     sha512   |-> IF hashed THEN stringToHash(FileBytes(name)) ELSE <<>>]

StoredCases ==
    { [messages |-> <<>>, files |-> <<>>],
      [messages |-> <<WelcomeMessage, ChatMessage("ai-seal-container-1", "AI", SealContainerContent)>>,
       files    |-> <<SavedFile("a.txt", TRUE)>>],
      [messages |-> <<ChatMessage("ai-report-1", "AI", ReportContent)>>,
       files    |-> <<SavedFile("a.txt", TRUE), SavedFile("b.txt", FALSE)>>] }

\* new File([], name) is stamped with the time of its construction.
LoadTime == 1

RestoredFile(f) ==
    [id     |-> f.id,
     name   |-> f.name,
     file   |-> [name |-> f.name[1], lastModified |-> LoadTime, size |-> 0, bytes |-> <<>>],
     size   |-> f.size,
     sha512 |-> f.sha512]

Includes(content, glyph) == \E k \in 1..Len(content) : content[k] = glyph

\* String.prototype.replace with a /g pattern that matches one glyph.
ReplaceAllFirstOnly(content, glyph, replacement, lo, hi) ==
    IF \E k \in lo..hi : content[k] = glyph
    THEN LET k == CHOOSE j \in lo..hi : content[j] = glyph /\ \A i \in lo..(j - 1) : content[i] # glyph
         IN  SubSeq(content, lo, k - 1) \o replacement \o SubSeq(content, k + 1, hi)
    ELSE SubSeq(content, lo, hi)

RECURSIVE ReplaceAll(_, _, _, _, _)
ReplaceAll(content, glyph, replacement, lo, hi) ==
    IF lo > hi THEN <<>>
    ELSE IF lo = hi THEN (IF content[lo] = glyph THEN replacement ELSE <<content[lo]>>)
    ELSE LET mid == (lo + hi) \div 2
         IN  ReplaceAll(content, glyph, replacement, lo, mid)
             \o ReplaceAll(content, glyph, replacement, mid + 1, hi)

\* markdownToPlainText on the glyphs the model's messages are made of: a header
\* marker is dropped, a list dash at the start of a line becomes a bullet.
PlainGlyph(content, k) ==
    CASE content[k] = "## Key Findings" -> <<"Key Findings">>
      [] content[k] = "## Sealing Metadata" -> <<"Sealing Metadata">>
      [] content[k] = "- " /\ k = 1 -> <<"\n", "* ">>
      [] content[k] = "- " /\ k > 1 /\ content[k - 1] = "\n" -> <<"* ">>
      [] OTHER -> <<content[k]>>

RECURSIVE markdownToPlainText(_, _, _)
markdownToPlainText(markdown, lo, hi) ==
    IF lo > hi THEN <<>>
    ELSE IF lo = hi THEN PlainGlyph(markdown, lo)
    ELSE LET mid == (lo + hi) \div 2
         IN  markdownToPlainText(markdown, lo, mid) \o markdownToPlainText(markdown, mid + 1, hi)

UtcTimestamp(n) == <<"2024-01-01T00", ":", "00", ":", "0">> \o DecStr(n) \o <<".", "000Z">>

LocalTimestamp(n) == <<"1/1/2024, 12:00:0">> \o DecStr(n) \o <<" AM UTC">>

FileNameFor(utcTimestamp) ==
    <<"VO_Sealed_Report_">>
    \o [k \in 1..Len(utcTimestamp) |->
          IF utcTimestamp[k] \in {":", "."} THEN "-" ELSE utcTimestamp[k]]
    \o <<".pdf">>

FindIndex(msgs, messageId) ==
    IF \E k \in 1..Len(msgs) : msgs[k].id = messageId
    THEN CHOOSE k \in 1..Len(msgs) :
            msgs[k].id = messageId /\ \A j \in 1..(k - 1) : msgs[j].id # messageId
    ELSE -1

\* A filter that lets every file through.
HasDigestOrNot(f) == f.sha512 = f.sha512

HasDigest(f) == f.sha512 # <<>>

EvidenceOf(files) ==
    LET hashed == SelectSeq(files, HasDigest)
    IN  [k \in 1..Len(hashed) |-> [name |-> hashed[k].name, sha512 |-> hashed[k].sha512]]

(***************************************************************************)
(* The save effect (lines 262-271) runs after every render in which        *)
(* messages, uploadedFiles, currentPage or isDbLoaded has changed.         *)
(***************************************************************************)
\* A save effect without the page test.
ShouldSaveOnAnyPage(loaded, page) == loaded /\ page = page

ShouldSave(loaded, page) == loaded /\ page = "firewall"

FilesToSave(files) ==
    [k \in 1..Len(files) |-> [id     |-> files[k].id,
                              name   |-> files[k].name,
                              size   |-> files[k].size,
                              sha512 |-> files[k].sha512]]

SaveEffect ==
    idb' = IF /\ <<messages', uploadedFiles', currentPage', isDbLoaded'>>
                  # <<messages, uploadedFiles, currentPage, isDbLoaded>>
              /\ ShouldSave(isDbLoaded', currentPage')
           THEN [kind |-> "saved", messages |-> messages', files |-> FilesToSave(uploadedFiles')]
           ELSE idb

(***************************************************************************)
(* App actions.                                                            *)
(***************************************************************************)
\* Uploads, seal requests, prompts and page changes the user has made so far.
UserActions == counters.uploads + counters.seals + counters.sends + counters.navigations

LoadData ==
    /\ UNCHANGED <<runs, chat, loadingState, isComplexMode, proxy, sw>>
    /\ ~isDbLoaded
    /\ \E data \in StoredCases :
         IF Len(data.messages) > 0 \/ Len(data.files) > 0
         THEN /\ uploadedFiles' = [k \in 1..Len(data.files) |-> RestoredFile(data.files[k])]
              /\ messages' = data.messages
         ELSE /\ uploadedFiles' = <<>>
              /\ messages' = <<WelcomeMessage>>
    /\ isDbLoaded' = TRUE
    /\ UNCHANGED <<hashJobs, seal, storageObjects, firestoreDocs, sealResult, downloads, counters>>
    /\ UNCHANGED pdfVars
    /\ UNCHANGED currentPage
    /\ SaveEffect

handleFilesChange ==
    /\ UNCHANGED <<runs, chat, loadingState, isComplexMode, proxy, sw>>
    /\ UserActions < MaxUserActions
    /\ \E files \in FileLists :
         LET newFiles == [k \in 1..Len(files) |-> NewUploadedFile(files[k])]
         IN  /\ uploadedFiles' = uploadedFiles \o newFiles
             /\ hashJobs' = hashJobs \cup
                  { [job |-> counters.jobs + k, newFile |-> newFiles[k]] : k \in 1..Len(files) }
             /\ messages' = Append(messages,
                  ChatMessage("file-upload", "SYSTEM",
                     DecStr(Len(newFiles)) \o <<" file(s) added to Evidence Locker. Ready for analysis.">>))
             /\ counters' = [counters EXCEPT !.uploads = @ + 1, !.jobs = @ + Len(files)]
    /\ UNCHANGED <<isDbLoaded, seal, storageObjects, firestoreDocs, sealResult, downloads>>
    /\ UNCHANGED pdfVars
    /\ UNCHANGED currentPage
    /\ SaveEffect

HashResolved ==
    /\ UNCHANGED <<runs, chat, loadingState, isComplexMode, proxy, sw>>
    /\ \E j \in hashJobs :
         /\ uploadedFiles' =
              [k \in 1..Len(uploadedFiles) |->
                  IF uploadedFiles[k].id = j.newFile.id
                  THEN [uploadedFiles[k] EXCEPT !.sha512 = sha512OfFile(j.newFile.file)]
                  ELSE uploadedFiles[k]]
         /\ hashJobs' = hashJobs \ {j}
    /\ UNCHANGED <<messages, isDbLoaded, seal, storageObjects, firestoreDocs, sealResult,
                   downloads, counters>>
    /\ UNCHANGED pdfVars
    /\ UNCHANGED currentPage
    /\ SaveEffect

HashRejected ==
    /\ UNCHANGED <<runs, chat, loadingState, isComplexMode, proxy, sw>>
    /\ \E j \in hashJobs : hashJobs' = hashJobs \ {j}
    /\ UNCHANGED <<messages, uploadedFiles, isDbLoaded, seal, storageObjects, firestoreDocs,
                   sealResult, downloads, counters>>
    /\ UNCHANGED pdfVars
    /\ UNCHANGED currentPage
    /\ SaveEffect

(***************************************************************************)
(* performSealingProcess, called by handleSealReport.  The callback closes *)
(* over the messages and uploadedFiles of the render in which it is called.*)
(***************************************************************************)
\* The messages a seal is requested for: those that carry a sealing section.
SealableIds ==
    {messages[k].id : k \in {j \in 1..Len(messages) :
                                Includes(messages[j].content, "## Sealing Metadata")}}

SealIdle == seal.pc \in {"idle", "returned"}

SealStart ==
    /\ UNCHANGED <<runs, chat, loadingState, isComplexMode, proxy, sw>>
    /\ SealIdle
    /\ isDbLoaded
    /\ UserActions < MaxUserActions
    /\ \E messageId \in SealableIds \cup {"missing"} :
         LET messageIndex == FindIndex(messages, messageId)
             message == messages[messageIndex]
             n == counters.seals + 1
             isManifestOnly == ~Includes(message.content, "## Key Findings")
             title == IF isManifestOnly THEN <<"Sealed Document Manifest">>
                      ELSE <<"Sealed Forensic Report">>
             evidence == EvidenceOf(uploadedFiles)
         IN  IF messageIndex = -1
             THEN /\ sealResult' = [kind |-> "null"]
                  /\ seal' = [pc |-> "idle"]
                  /\ UNCHANGED pdfVars
             ELSE /\ seal' = [pc            |-> "makeSealedPdf",
                              messages      |-> messages,
                              uploadedFiles |-> uploadedFiles,
                              messageIndex  |-> messageIndex,
                              utcTimestamp  |-> UtcTimestamp(n),
                              evidence      |-> evidence]
                  /\ input' = [title          |-> title,
                               messagesHtml   |-> IF isManifestOnly THEN <<>>
                                                  ELSE markdownToPlainText(message.content, 1,
                                                                           Len(message.content)),
                               evidence       |-> evidence,
                               utcTimestamp   |-> UtcTimestamp(n),
                               localTimestamp |-> LocalTimestamp(n),
                               appVersion     |-> APP_VERSION]
                  /\ pc' = "create"
                  /\ pdf' = <<>>
                  /\ font' = NoFont
                  /\ pageCount' = 0
                  /\ partialHash' = None
                  /\ qrPayload' = None
                  /\ qrDataUrl' = None
                  /\ breakCursors' = <<>>
                  /\ events' = <<>>
                  /\ result' = NoBytes
                  /\ error' = NoError
                  /\ UNCHANGED sealResult
    /\ counters' = [counters EXCEPT !.seals = @ + 1]
    /\ UNCHANGED <<messages, uploadedFiles, isDbLoaded, hashJobs, storageObjects,
                   firestoreDocs, downloads>>
    /\ UNCHANGED currentPage
    /\ SaveEffect

\* makeSealedPdf has settled: its locals are gone, the caller holds what it returned.
PdfFrameDropped ==
    /\ pc' = "idle"
    /\ pdf' = <<>>
    /\ font' = NoFont
    /\ pageCount' = 0
    /\ partialHash' = None
    /\ qrPayload' = None
    /\ qrDataUrl' = None
    /\ breakCursors' = <<>>
    /\ events' = <<>>
    /\ error' = NoError
    /\ UNCHANGED <<input, result>>

\* A caller that catches the rejection and seals an empty document instead.
SealPdfRejectedSwallowed ==
    /\ UNCHANGED <<runs, chat, loadingState, isComplexMode, proxy, sw>>
    /\ seal.pc = "makeSealedPdf"
    /\ pc = "failed"
    /\ seal' = [pc            |-> "stringToHash",
                messages      |-> seal.messages,
                uploadedFiles |-> seal.uploadedFiles,
                messageIndex  |-> seal.messageIndex,
                utcTimestamp  |-> seal.utcTimestamp,
                evidence      |-> seal.evidence,
                pdfBytes      |-> <<>>]
    /\ UNCHANGED <<messages, uploadedFiles, isDbLoaded, hashJobs, storageObjects,
                   firestoreDocs, sealResult, downloads, counters>>
    /\ PdfFrameDropped
    /\ UNCHANGED currentPage
    /\ SaveEffect

SealPdfRejected ==
    /\ UNCHANGED <<runs, chat, loadingState, isComplexMode, proxy, sw>>
    /\ seal.pc = "makeSealedPdf"
    /\ pc = "failed"
    /\ seal' = [pc |-> "idle"]
    /\ sealResult' = [kind |-> "rejected"]
    /\ UNCHANGED <<messages, uploadedFiles, isDbLoaded, hashJobs, storageObjects,
                   firestoreDocs, downloads, counters>>
    /\ PdfFrameDropped
    /\ UNCHANGED currentPage
    /\ SaveEffect

SealPdfReturned ==
    /\ UNCHANGED <<runs, chat, loadingState, isComplexMode, proxy, sw>>
    /\ seal.pc = "makeSealedPdf"
    /\ pc = "done"
    /\ seal' = [pc            |-> "stringToHash",
                messages      |-> seal.messages,
                uploadedFiles |-> seal.uploadedFiles,
                messageIndex  |-> seal.messageIndex,
                utcTimestamp  |-> seal.utcTimestamp,
                evidence      |-> seal.evidence,
                pdfBytes      |-> result]
    /\ UNCHANGED <<messages, uploadedFiles, isDbLoaded, hashJobs, storageObjects,
                   firestoreDocs, sealResult, downloads, counters>>
    /\ PdfFrameDropped
    /\ UNCHANGED currentPage
    /\ SaveEffect

SealHashed ==
    /\ UNCHANGED <<runs, chat, loadingState, isComplexMode, proxy, sw>>
    /\ seal.pc = "stringToHash"
    /\ seal' = [pc            |-> "getCurrentUser",
                messages      |-> seal.messages,
                uploadedFiles |-> seal.uploadedFiles,
                messageIndex  |-> seal.messageIndex,
                utcTimestamp  |-> seal.utcTimestamp,
                evidence      |-> seal.evidence,
                pdfBytes      |-> seal.pdfBytes,
                pdfHash       |-> stringToHash(seal.pdfBytes),
                fileName      |-> FileNameFor(seal.utcTimestamp),
                storagePath   |-> <<>>]
    /\ UNCHANGED <<messages, uploadedFiles, isDbLoaded, hashJobs, storageObjects,
                   firestoreDocs, sealResult, downloads, counters>>
    /\ UNCHANGED pdfVars
    /\ UNCHANGED currentPage
    /\ SaveEffect

\* Lines 585-602 and the continuation of handleSealReport (lines 606-609).
SealFinish(cloudAnchorResult) ==
    LET message == seal.messages[seal.messageIndex]
        c1 == ReplaceAll(message.content, ShaPlaceholder, seal.pdfHash, 1, Len(message.content))
        c2 == ReplaceAll(c1, CloudPlaceholder,
                         IF cloudAnchorResult.storagePath # <<>>
                         THEN cloudAnchorResult.storagePath ELSE <<"N/A">>, 1, Len(c1))
        newContent == ReplaceAll(c2, FirestorePlaceholder,
                         IF cloudAnchorResult.firestoreId # <<>>
                         THEN cloudAnchorResult.firestoreId ELSE <<"N/A">>, 1, Len(c2))
    IN  /\ messages' = [seal.messages EXCEPT ![seal.messageIndex] =
                          [id              |-> message.id,
                           author          |-> message.author,
                           content         |-> newContent,
                           sealingMetadata |-> [sha512      |-> seal.pdfHash,
                                                cloudAnchor |-> cloudAnchorResult]]]
        /\ sealResult' = [kind           |-> "sealed",
                          fileName       |-> seal.fileName,
                          hash           |-> seal.pdfHash,
                          cloudAnchor    |-> cloudAnchorResult,
                          pdfBytes       |-> seal.pdfBytes,
                          updatedContent |-> newContent]
        /\ downloads' = Append(downloads, [fileName |-> seal.fileName, data |-> seal.pdfBytes])
        /\ seal' = [seal EXCEPT !.pc = "returned"]

\* A catch that reports the anchor as confirmed.
CloudFailedAsConfirmed(message) ==
    [status |-> "confirmed", error |-> message, storagePath |-> <<>>, firestoreId |-> <<>>]

CloudFailed(message) ==
    [status |-> "failed", error |-> message, storagePath |-> <<>>, firestoreId |-> <<>>]

GetCurrentUser ==
    /\ UNCHANGED <<runs, chat, loadingState, isComplexMode, proxy, sw>>
    /\ seal.pc = "getCurrentUser"
    /\ \E currentUser \in {"uid-1", "null", "throws"} :
         IF currentUser = "uid-1"
         THEN /\ seal' = [seal EXCEPT !.pc = "uploadBytes",
                                      !.storagePath = <<"users/", currentUser, "/reports/">>
                                                      \o seal.fileName]
              /\ UNCHANGED <<messages, sealResult, downloads>>
         ELSE SealFinish(CloudFailed(IF currentUser = "null"
                                     THEN "Authentication failed. Cannot seal report to the cloud."
                                     ELSE "getCurrentUser"))
    /\ UNCHANGED <<uploadedFiles, isDbLoaded, hashJobs, storageObjects, firestoreDocs, counters>>
    /\ UNCHANGED pdfVars
    /\ UNCHANGED currentPage
    /\ SaveEffect

UploadBytes ==
    /\ UNCHANGED <<runs, chat, loadingState, isComplexMode, proxy, sw>>
    /\ seal.pc = "uploadBytes"
    /\ \E ok \in BOOLEAN :
         IF ok
         THEN /\ storageObjects' = storageObjects \cup
                   {[path |-> seal.storagePath, bytes |-> seal.pdfBytes, seal |-> counters.seals]}
              /\ seal' = [seal EXCEPT !.pc = "setDoc"]
              /\ UNCHANGED <<messages, sealResult, downloads>>
         ELSE /\ SealFinish(CloudFailed("uploadBytes"))
              /\ UNCHANGED storageObjects
    /\ UNCHANGED <<uploadedFiles, isDbLoaded, hashJobs, firestoreDocs, counters>>
    /\ UNCHANGED pdfVars
    /\ UNCHANGED currentPage
    /\ SaveEffect

SetDoc ==
    /\ UNCHANGED <<runs, chat, loadingState, isComplexMode, proxy, sw>>
    /\ seal.pc = "setDoc"
    /\ \E ok \in BOOLEAN :
         LET firestoreId == <<"report-">> \o DecStr(counters.seals)
         IN  IF ok
             THEN /\ firestoreDocs' = firestoreDocs \cup
                       {[id          |-> firestoreId,
                         userId      |-> "uid-1",
                         fileName    |-> seal.fileName,
                         sha512      |-> seal.pdfHash,
                         storagePath |-> seal.storagePath,
                         fileCount   |-> Len(seal.uploadedFiles),
                         seal        |-> counters.seals]}
                  /\ SealFinish([status      |-> "confirmed",
                                 error       |-> "",
                                 storagePath |-> seal.storagePath,
                                 firestoreId |-> firestoreId])
             ELSE /\ SealFinish(CloudFailed("setDoc"))
                  /\ UNCHANGED firestoreDocs
    /\ UNCHANGED <<uploadedFiles, isDbLoaded, hashJobs, storageObjects, counters>>
    /\ UNCHANGED pdfVars
    /\ UNCHANGED currentPage
    /\ SaveEffect

AppNext ==
    \/ LoadData
    \/ handleFilesChange
    \/ HashResolved
    \/ HashRejected
    \/ SealStart
    \/ SealPdfRejected
    \/ SealPdfReturned
    \/ SealHashed
    \/ GetCurrentUser
    \/ UploadBytes
    \/ SetDoc
    \/ Create
    \/ EmbedFont
    \/ ToDataURL
    \/ RenderSummaryPage
    \/ RenderBodyPages
    \/ AddFinalPage
    \/ EmbedPng
    \/ WriteMeta
    \/ SavePdf
    \/ Reject

InitApp ==
    /\ input = None
    /\ PdfIdle
    /\ AppIdle
    /\ isComplexMode = FALSE
    /\ ServicesIdle

SpecApp == InitApp /\ [][AppNext]_vars

(***************************************************************************)
(* handleSendMessage.  The callback closes over the uploadedFiles of the   *)
(* render in which it is called; every setMessages takes the current list. *)
(***************************************************************************)
\* `${kind}-${Date.now()}` for the n-th prompt of the session.
MessageId(kind, n) ==
    CASE kind = "user"              -> <<"user-11", "user-12", "user-13", "user-14">>[n]
      [] kind = "ai"                -> <<"ai-11", "ai-12", "ai-13", "ai-14">>[n]
      [] kind = "ai-seal-prompt"    -> <<"ai-seal-prompt-11", "ai-seal-prompt-12",
                                         "ai-seal-prompt-13", "ai-seal-prompt-14">>[n]
      [] kind = "ai-seal-container" -> <<"ai-seal-container-11", "ai-seal-container-12",
                                         "ai-seal-container-13", "ai-seal-container-14">>[n]
      [] kind = "ai-error"          -> <<"ai-error-11", "ai-error-12", "ai-error-13",
                                         "ai-error-14">>[n]
      [] kind = "ai-report"         -> <<"ai-report-11", "ai-report-12", "ai-report-13",
                                         "ai-report-14">>[n]
      [] OTHER                      -> <<"error-11", "error-12", "error-13", "error-14">>[n]

HasContent(f) == f.file.size > 0

Intents == {"chat", "seal", "scan"}

MAX_TOTAL_SIZE_BYTES == 30 * 1024 * 1024

RECURSIVE TotalSize(_, _)
TotalSize(files, k) == IF k = 0 THEN 0 ELSE TotalSize(files, k - 1) + files[k].size

\* A limit that also refuses a payload of exactly 30 MB.
ExceedsLimitInclusive(count, totalSize) == count > 0 /\ totalSize >= MAX_TOTAL_SIZE_BYTES

ExceedsLimit(count, totalSize) == count > 0 /\ totalSize > MAX_TOTAL_SIZE_BYTES

\* What a remote call settles with: a text, or a rejection with its reason.
Fulfilled(value) == [status |-> "fulfilled", value |-> value]

Rejected(reason) == [status |-> "rejected", value |-> <<reason>>]

\* Either analysis failing counts as both failing.
EitherRejected(geminiResult, openAIResult) ==
    geminiResult.status = "rejected" \/ openAIResult.status = "rejected"

BothRejected(geminiResult, openAIResult) ==
    geminiResult.status = "rejected" /\ openAIResult.status = "rejected"

(***************************************************************************)
(* performAutomaticVerification (lines 329-371).  The two audits run under *)
(* one Promise.all inside the try; an audit result is a text.              *)
(***************************************************************************)
totalVoters == 5

AuditResults ==
    { Fulfilled(<<"APK Audit Passed", ": no deviations">>),
      Fulfilled(<<"APK Audit Notes:", " one date is ambiguous">>),
      Fulfilled(<<"The report could not be assessed">>),
      Rejected("audit") }

\* An audit that counts whatever came back.
StartsWithAnything(text, prefix) == Len(text) >= 0 /\ prefix = prefix

StartsWith(text, prefix) == Len(text) > 0 /\ text[1] = prefix

\* replace('APK Audit Notes:', '').trim() on a result of the model.
AuditNote(label, text) ==
    <<label>> \o SelectSeq(text, LAMBDA g : g # "APK Audit Notes:")

ConsensusText(verifiedCount) ==
    IF verifiedCount >= 5 THEN "Full Ecosystem Consensus"
    ELSE IF verifiedCount = 4 THEN "Quadruple Verification Consensus"
    ELSE IF verifiedCount = 3 THEN "Triple Verification Consensus"
    ELSE "Consensus Pending"

\* notes.join('\n') || "All checks passed."
JoinNotes(notes) ==
    IF notes = <<>> THEN <<"All checks passed.">>
    ELSE IF Len(notes) = 1 THEN notes[1]
    ELSE notes[1] \o <<"\n">> \o notes[2]

performAutomaticVerification(consumerResult, enterpriseResult) ==
    LET thrown == consumerResult.status = "rejected" \/ enterpriseResult.status = "rejected"
        consumerPassed == ~thrown /\ StartsWith(consumerResult.value, "APK Audit Passed")
        enterprisePassed == ~thrown /\ StartsWith(enterpriseResult.value, "APK Audit Passed")
        verifiedCount == 3 + (IF consumerPassed THEN 1 ELSE 0) + (IF enterprisePassed THEN 1 ELSE 0)
        notes == IF thrown
                 THEN << <<"On-device verification encountered an unexpected error.">> >>
                 ELSE (IF consumerPassed THEN <<>>
                       ELSE << AuditNote("Consumer APK: ", consumerResult.value) >>)
                      \o (IF enterprisePassed THEN <<>>
                          ELSE << AuditNote("Enterprise APK: ", enterpriseResult.value) >>)
    IN  [consensusText |-> ConsensusText(verifiedCount),
         verifiedCount |-> verifiedCount,
         totalVoters   |-> totalVoters,
         notes         |-> JoinNotes(notes)]

(***************************************************************************)
(* handleSendMessage as a process: one action per await.                   *)
(***************************************************************************)
ChatUnchanged ==
    /\ UNCHANGED <<runs, isComplexMode, proxy, sw>>
    /\ UNCHANGED <<uploadedFiles, isDbLoaded, hashJobs, seal, storageObjects, firestoreDocs,
                   sealResult, downloads, currentPage>>
    /\ UNCHANGED pdfVars

\* The call appends one message and returns through the finally of line 487.
ChatEnds(message) ==
    /\ messages' = Append(messages, message)
    /\ chat' = [pc |-> "idle"]
    /\ loadingState' = "idle"

\* The catch of lines 478-486.
ChatCatch(errorMessage) ==
    ChatEnds(ChatMessage(MessageId("error", chat.n), "AI",
                         <<"I'm sorry, a critical error occurred: ", errorMessage,
                           ". Please try again.">>))

\* Lines 374-389: the user's message is appended and the reads of the files
\* that have content are started.
handleSendMessage ==
    /\ chat.pc = "idle"
    /\ UserActions < MaxUserActions
    /\ LET n == counters.sends + 1
       IN  /\ messages' = Append(messages, [id              |-> MessageId("user", n),
                                            author          |-> "USER",
                                            content         |-> <<"prompt">>,
                                            sealingMetadata |-> NoSealingMetadata,
                                            files           |-> uploadedFiles])
           /\ chat' = [pc            |-> "getBase64",
                       n             |-> n,
                       uploadedFiles |-> uploadedFiles,
                       isComplexMode |-> isComplexMode]
           /\ counters' = [counters EXCEPT !.sends = n]
    /\ UNCHANGED loadingState
    /\ ChatUnchanged
    /\ SaveEffect

\* Lines 382-405: the reads have settled.  A failed read rejects the call
\* before its try; otherwise the size of the payload is tested.
Base64Settled ==
    /\ chat.pc = "getBase64"
    /\ LET filesToAnalyze == SelectSeq(chat.uploadedFiles, HasContent)
           totalSize == TotalSize(filesToAnalyze, Len(filesToAnalyze))
       IN  \/ /\ Len(filesToAnalyze) > 0
              /\ chat' = [pc |-> "idle"]
              /\ UNCHANGED <<messages, loadingState>>
           \/ IF ExceedsLimit(Len(filesToAnalyze), totalSize)
              THEN /\ messages' = Append(messages,
                        ChatMessage(MessageId("error", chat.n), "AI",
                           <<"The total size of the uploaded files (">> \o DecStr(totalSize)
                           \o <<" bytes) exceeds the operational limit of 30MB for a single analysis.">>))
                   /\ chat' = [pc |-> "idle"]
                   /\ UNCHANGED loadingState
              ELSE /\ chat' = [pc             |-> "routeUserIntent",
                               n              |-> chat.n,
                               uploadedFiles  |-> chat.uploadedFiles,
                               isComplexMode  |-> chat.isComplexMode,
                               filesToAnalyze |-> filesToAnalyze]
                   /\ loadingState' = "analyzing"
                   /\ UNCHANGED messages
    /\ UNCHANGED counters
    /\ ChatUnchanged
    /\ SaveEffect

\* Lines 406-445, 463: routeUserIntent has settled.
IntentRouted ==
    /\ chat.pc = "routeUserIntent"
    /\ LET fileCount == Len(chat.filesToAnalyze)
       IN  \/ ChatCatch("routeUserIntent")
           \/ \E intent \in Intents :
                CASE intent = "chat" ->
                       /\ chat' = [chat EXCEPT !.pc = "generateSimpleChat"]
                       /\ UNCHANGED <<messages, loadingState>>
                  [] intent = "seal" /\ fileCount = 0 ->
                       ChatEnds(ChatMessage(MessageId("ai-seal-prompt", chat.n), "AI",
                          <<"Of course. To create a sealed, tamper-proof document manifest, please upload the files you wish to certify.">>))
                  [] intent = "seal" /\ fileCount > 0 ->
                       ChatEnds(ChatMessage(MessageId("ai-seal-container", chat.n), "AI",
                                            SealContainer(fileCount)))
                  [] intent = "scan" /\ fileCount = 0 ->
                       ChatEnds(ChatMessage(MessageId("ai-error", chat.n), "AI",
                          <<"To perform a forensic analysis, please upload the relevant documents using the paperclip icon first.">>))
                  [] intent = "scan" /\ fileCount > 0 /\ chat.isComplexMode ->
                       /\ chat' = [pc             |-> "getPreliminaryAnalysis",
                                   n              |-> chat.n,
                                   uploadedFiles  |-> chat.uploadedFiles,
                                   isComplexMode  |-> chat.isComplexMode,
                                   filesToAnalyze |-> chat.filesToAnalyze,
                                   geminiResult   |-> [status |-> "pending", value |-> <<>>],
                                   openAIResult   |-> [status |-> "pending", value |-> <<>>]]
                       /\ loadingState' = "analyzing"
                       /\ UNCHANGED messages
                  [] OTHER ->
                       /\ chat' = [chat EXCEPT !.pc = "getDirectAnalysis"]
                       /\ loadingState' = "analyzing"
                       /\ UNCHANGED messages
    /\ UNCHANGED counters
    /\ ChatUnchanged
    /\ SaveEffect

\* Lines 409-411: generateSimpleChat has settled.
SimpleChatSettled ==
    /\ chat.pc = "generateSimpleChat"
    /\ \/ ChatEnds(ChatMessage(MessageId("ai", chat.n), "AI", <<"responseText">>))
       \/ ChatCatch("generateSimpleChat")
    /\ UNCHANGED counters
    /\ ChatUnchanged
    /\ SaveEffect

\* Lines 446-449: one of the two analyses under Promise.allSettled settles.
GeminiSettled ==
    /\ chat.pc = "getPreliminaryAnalysis"
    /\ chat.geminiResult.status = "pending"
    /\ \E settled \in {Fulfilled(<<"gemini strategy">>), Rejected("gemini")} :
         chat' = [chat EXCEPT !.geminiResult = settled]
    /\ UNCHANGED <<messages, loadingState, counters>>
    /\ ChatUnchanged
    /\ SaveEffect

OpenAISettled ==
    /\ chat.pc = "getPreliminaryAnalysis"
    /\ chat.openAIResult.status = "pending"
    /\ \E settled \in {Fulfilled(<<"openai strategy">>), Rejected("openai")} :
         chat' = [chat EXCEPT !.openAIResult = settled]
    /\ UNCHANGED <<messages, loadingState, counters>>
    /\ ChatUnchanged
    /\ SaveEffect

\* Lines 451-461: both have settled and the call resumes.
AllSettled ==
    /\ chat.pc = "getPreliminaryAnalysis"
    /\ chat.geminiResult.status # "pending"
    /\ chat.openAIResult.status # "pending"
    /\ IF BothRejected(chat.geminiResult, chat.openAIResult)
       THEN ChatCatch("Both Gemini and OpenAI analyses failed.")
       ELSE /\ chat' = [chat EXCEPT !.pc = "synthesizeFinalReport"]
            /\ loadingState' = "synthesizing"
            /\ UNCHANGED messages
    /\ UNCHANGED counters
    /\ ChatUnchanged
    /\ SaveEffect

\* Lines 461 and 464-467: the report text has arrived, or the call has failed.
ReportSettled ==
    /\ chat.pc \in {"synthesizeFinalReport", "getDirectAnalysis"}
    /\ \/ /\ chat' = [chat EXCEPT !.pc = "performAutomaticVerification"]
          /\ loadingState' = "verifying"
          /\ UNCHANGED messages
       \/ ChatCatch(chat.pc)
    /\ UNCHANGED counters
    /\ ChatUnchanged
    /\ SaveEffect

\* Lines 338-370: the two audits have settled and performAutomaticVerification
\* returns its result.
AuditsSettled ==
    /\ chat.pc = "performAutomaticVerification"
    /\ \E consumerResult \in AuditResults, enterpriseResult \in AuditResults :
         chat' = [pc                 |-> "verified",
                  n                  |-> chat.n,
                  isComplexMode      |-> chat.isComplexMode,
                  consumerResult     |-> consumerResult,
                  enterpriseResult   |-> enterpriseResult,
                  verificationResult |->
                     performAutomaticVerification(consumerResult, enterpriseResult)]
    /\ UNCHANGED <<messages, loadingState, counters>>
    /\ ChatUnchanged
    /\ SaveEffect

\* Lines 468-476: handleSendMessage resumes with the result and appends the report.
VerificationSettled ==
    /\ chat.pc = "verified"
    /\ ChatEnds([id                 |-> MessageId("ai-report", chat.n),
                 author             |-> "AI",
                 content            |-> ReportContent,
                 sealingMetadata    |-> NoSealingMetadata,
                 verificationResult |-> chat.verificationResult])
    /\ UNCHANGED counters
    /\ ChatUnchanged
    /\ SaveEffect

SendNext ==
    \/ handleSendMessage
    \/ Base64Settled
    \/ IntentRouted
    \/ SimpleChatSettled
    \/ GeminiSettled
    \/ OpenAISettled
    \/ AllSettled
    \/ ReportSettled
    \/ AuditsSettled
    \/ VerificationSettled

ChatNext ==
    \/ AppNext
    \/ SendNext

\* The component with either setting of the complex-mode switch.
InitChat ==
    /\ input = None
    /\ PdfIdle
    /\ AppIdle
    /\ isComplexMode \in BOOLEAN
    /\ ServicesIdle

SpecChat == InitChat /\ [][ChatNext]_vars

(***************************************************************************)
(* handleSendMessage on its own: the case is loaded, the evidence locker   *)
(* holds one of a few file lists, and prompts are sent.                    *)
(***************************************************************************)
MB == 1024 * 1024

\* An uploaded file of the given size whose hash has not arrived.
SizedFile(name, size) ==
    [id     |-> <<name, "-", "0", "-">> \o DecStr(size),
     name   |-> <<name>>,
     file   |-> [name |-> name, lastModified |-> 0, size |-> size, bytes |-> <<>>],
     size   |-> size,
     sha512 |-> <<>>]

\* A restored record of the given size: its file object is an empty placeholder.
SizedPlaceholder(name, size) ==
    [id     |-> <<name, "-", "0", "-">> \o DecStr(size),
     name   |-> <<name>>,
     file   |-> [name |-> name, lastModified |-> LoadTime, size |-> 0, bytes |-> <<>>],
     size   |-> size,
     sha512 |-> <<>>]

SendFileLists ==
    { <<>>,
      <<SizedFile("empty.txt", 0)>>,
      <<SizedFile("a.pdf", 3)>>,
      <<SizedFile("a.pdf", 15 * MB), SizedFile("b.pdf", 15 * MB)>>,
      <<SizedFile("a.pdf", 15 * MB), SizedFile("b.pdf", 15 * MB + 1)>>,
      <<SizedFile("a.pdf", 31 * MB), SizedFile("empty.txt", 0)>>,
      <<SizedPlaceholder("old.pdf", 40 * MB)>>,
      <<SizedPlaceholder("old.pdf", 40 * MB), SizedFile("a.pdf", 3)>> }

InitSend ==
    /\ input = None
    /\ PdfIdle
    /\ ServicesIdle
    /\ isComplexMode \in BOOLEAN
    /\ uploadedFiles \in SendFileLists
    /\ messages = <<WelcomeMessage>>
    /\ isDbLoaded = TRUE
    /\ hashJobs = {}
    /\ seal = [pc |-> "idle"]
    /\ storageObjects = {}
    /\ firestoreDocs = {}
    /\ sealResult = [kind |-> "none"]
    /\ downloads = <<>>
    /\ counters = [uploads |-> 0, jobs |-> 0, seals |-> 0, sends |-> 0, navigations |-> 0]
    /\ runs = <<>>
    /\ chat = [pc |-> "idle"]
    /\ currentPage = "firewall"
    /\ idb = [kind |-> "saved", messages |-> messages, files |-> FilesToSave(uploadedFiles)]
    /\ loadingState = "idle"

SpecSend == InitSend /\ [][SendNext]_vars

(***************************************************************************)
(* Page navigation (lines 677-679).                                        *)
(***************************************************************************)
Pages == {"firewall", "tax", "business"}

Navigate ==
    /\ UserActions < MaxUserActions
    /\ \E page \in Pages \ {currentPage} : currentPage' = page
    /\ counters' = [counters EXCEPT !.navigations = @ + 1]
    /\ UNCHANGED <<messages, uploadedFiles, isDbLoaded, hashJobs, seal, storageObjects,
                   firestoreDocs, sealResult, downloads, runs, chat, loadingState,
                   isComplexMode, proxy, sw>>
    /\ UNCHANGED pdfVars
    /\ SaveEffect

\* Loading, the uploads with their hashing jobs, and navigation: the handlers
\* that change each of the values the save effect depends on.
SaveNext ==
    \/ LoadData
    \/ handleFilesChange
    \/ HashResolved
    \/ HashRejected
    \/ Navigate

SpecSave == InitApp /\ [][SaveNext]_vars

(***************************************************************************)
(* The proxy functions of src/functions/index.js.  A function instance     *)
(* handles one request: the synchronous part of the handler, then the      *)
(* upstream fetch, then the read of the upstream body.                     *)
(***************************************************************************)
Methods == {"OPTIONS", "POST", "GET", "PUT"}

ProxyFunctions == {"openaiProxy", "geminiProxy"}

RequestBodies == {<<"{}">>, <<"{", "contents", "}">>}

\* req.query.model: absent, or a model name.
QueryModels == {<<>>, <<"gemini-pro">>}

UpstreamStatuses == {200, 429, 500}

\* The content-type header of the upstream response, <<>> when it has none.
UpstreamContentTypes == {<<>>, <<"text/plain">>}

CorsHeaders ==
    { <<"Access-Control-Allow-Origin", "*">>,
      <<"Vary", "Origin">>,
      <<"Access-Control-Allow-Methods", "POST, OPTIONS">>,
      <<"Access-Control-Allow-Headers", "Content-Type, Authorization">> }

\* A handler that forwards whatever the method is.
MethodAllowedAlways(method) == method = method

MethodAllowed(method) == method = "POST"

Response(status, headers, contentType, responseBody) ==
    [status |-> status, headers |-> headers \cup {<<"Content-Type", contentType>>},
     body |-> responseBody]

\* The text()/status()/send() and json() of the handlers, by function.
MethodNotAllowed(headers) ==
    Response(405, headers, "text/html", <<"Method Not Allowed">>)

KeyMissing(fn, headers) ==
    Response(500, headers, "application/json",
             IF fn = "openaiProxy"
             THEN <<"{", "error", ":", "Server configuration error: OpenAI key missing", "}">>
             ELSE <<"{", "error", ":", "Server configuration error: Gemini key missing", "}">>)

InternalError(fn, headers) ==
    Response(500, headers, "application/json",
             IF fn = "openaiProxy"
             THEN <<"{", "error", ":", "OpenAI proxy internal error", "}">>
             ELSE <<"{", "error", ":", "Gemini proxy internal error", "}">>)

UpstreamCall(fn, req, key) ==
    IF fn = "openaiProxy"
    THEN [url     |-> <<"https://api.openai.com/v1/chat/completions">>,
          method  |-> "POST",
          headers |-> [contentType |-> "application/json", authorization |-> <<"Bearer ", key>>],
          body    |-> req.body]
    ELSE [url     |-> <<"https://generativelanguage.googleapis.com/v1beta/models/">>
                      \o (IF req.model # <<>> THEN req.model ELSE <<"gemini-2.5-flash">>)
                      \o <<":generateContent?key=", key>>,
          method  |-> "POST",
          headers |-> [contentType |-> "application/json", authorization |-> <<>>],
          body    |-> req.body]

\* A request arrives at a function whose key is or is not configured.
ProxyRequest ==
    /\ proxy.pc = "idle"
    /\ \E fn \in ProxyFunctions, method \in Methods, requestBody \in RequestBodies,
          model \in QueryModels, key \in {"", "key-1"} :
         proxy' = [pc        |-> "handler",
                   fn        |-> fn,
                   req       |-> [method |-> method, body |-> requestBody, model |-> model],
                   key       |-> key,
                   headers   |-> {},
                   upstream  |-> <<>>,
                   settled   |-> <<>>,
                   responses |-> <<>>]
    /\ UNCHANGED <<pdfVars, messages, uploadedFiles, isDbLoaded, hashJobs, seal, storageObjects,
                   firestoreDocs, sealResult, downloads, counters, runs, chat, currentPage, idb,
                   loadingState, isComplexMode, sw>>

\* Lines 25-43 and 60-81: applyCors, the method test, the key test, the fetch.
ProxyHandler(fn) ==
    /\ proxy.pc = "handler"
    /\ proxy.fn = fn
    /\ LET headers == proxy.headers \cup CorsHeaders
       IN  proxy' =
             IF proxy.req.method = "OPTIONS"
             THEN [proxy EXCEPT !.pc = "done", !.headers = headers,
                                !.responses = Append(@, [status  |-> 204,
                                                         headers |-> headers,
                                                         body    |-> <<>>])]
             ELSE IF ~MethodAllowed(proxy.req.method)
             THEN [proxy EXCEPT !.pc = "done", !.headers = headers,
                                !.responses = Append(@, MethodNotAllowed(headers))]
             ELSE IF proxy.key = ""
             THEN [proxy EXCEPT !.pc = "done", !.headers = headers,
                                !.responses = Append(@, KeyMissing(fn, headers))]
             ELSE [proxy EXCEPT !.pc = "fetch", !.headers = headers,
                                !.upstream = Append(@, UpstreamCall(fn, proxy.req, proxy.key))]
    /\ UNCHANGED <<pdfVars, messages, uploadedFiles, isDbLoaded, hashJobs, seal, storageObjects,
                   firestoreDocs, sealResult, downloads, counters, runs, chat, currentPage, idb,
                   loadingState, isComplexMode, sw>>

openaiProxy == ProxyHandler("openaiProxy")

geminiProxy == ProxyHandler("geminiProxy")

\* await fetch(...): the upstream answers with some status, or the call fails.
FetchSettled ==
    /\ proxy.pc = "fetch"
    /\ \/ \E status \in UpstreamStatuses, contentType \in UpstreamContentTypes,
             text \in {<<"{", "ok", "}">>, <<"upstream error">>} :
            proxy' = [proxy EXCEPT !.pc = "text",
                                   !.settled = Append(@, [status      |-> status,
                                                          contentType |-> contentType,
                                                          text        |-> text])]
       \/ proxy' = [proxy EXCEPT !.pc = "done",
                                 !.settled = Append(@, [status |-> 0, contentType |-> <<>>,
                                                        text |-> <<"fetch failed">>]),
                                 !.responses = Append(@, InternalError(proxy.fn, proxy.headers))]
    /\ UNCHANGED <<pdfVars, messages, uploadedFiles, isDbLoaded, hashJobs, seal, storageObjects,
                   firestoreDocs, sealResult, downloads, counters, runs, chat, currentPage, idb,
                   loadingState, isComplexMode, sw>>

\* await apiResponse.text(), then the relay of lines 46-48 and 84-86, or the catch.
TextSettled ==
    /\ proxy.pc = "text"
    /\ LET apiResponse == proxy.settled[Len(proxy.settled)]
       IN  \/ proxy' = [proxy EXCEPT !.pc = "done",
                          !.responses = Append(@,
                             [status  |-> apiResponse.status,
                              headers |-> proxy.headers \cup
                                          {<<"Content-Type",
                                             IF apiResponse.contentType # <<>>
                                             THEN apiResponse.contentType[1]
                                             ELSE "application/json">>},
                              body    |-> apiResponse.text])]
           \/ proxy' = [proxy EXCEPT !.pc = "done",
                          !.settled = Append(@, [status |-> 0, contentType |-> <<>>,
                                                 text |-> <<"text failed">>]),
                          !.responses = Append(@, InternalError(proxy.fn, proxy.headers))]
    /\ UNCHANGED <<pdfVars, messages, uploadedFiles, isDbLoaded, hashJobs, seal, storageObjects,
                   firestoreDocs, sealResult, downloads, counters, runs, chat, currentPage, idb,
                   loadingState, isComplexMode, sw>>

ProxyNext ==
    \/ ProxyRequest
    \/ openaiProxy
    \/ geminiProxy
    \/ FetchSettled
    \/ TextSettled

SpecProxy == InitApp /\ [][ProxyNext]_vars

(***************************************************************************)
(* The service worker.  A cache is a set of entries, one per request path; *)
(* the cache storage lists its caches in the order they were created.  A   *)
(* response carries its status and the generation of the content: 0 for    *)
(* an earlier build, 1 for the install, 1 + n for the n-th fetch event.    *)
(***************************************************************************)
MaxRequests == 2

CACHE_NAME == "verum-omnis-cache-v4"

urlsToCache == <<"/", "/index.html", "/index.tsx", "/favicon.svg", "/manifest.json",
                 "/icon-192.png", "/icon-512.png">>

OldCacheNames == <<"verum-omnis-cache-v3", "verum-omnis-cache-v2">>

RequestPaths == {"/", "/index.html", "/icon-192.png", "/index.css", "/api/geminiProxy"}

NetworkStatuses == {200, 404, 500}

\* What the client gets when respondWith settles without a Response.
NetworkError == [status |-> 0, generation |-> 0]

NoFetchEvent ==
    [path |-> "", intercepted |-> FALSE, network |-> Rejected("none"),
     opened |-> FALSE, put |-> FALSE, received |-> NetworkError]

OldCache(name) ==
    [name    |-> name,
     entries |-> {[path |-> "/", response |-> [status |-> 200, generation |-> 0]],
                  [path |-> "/index.html", response |-> [status |-> 200, generation |-> 0]]}]

OldCacheLists ==
    {<<>>, <<OldCache(OldCacheNames[1])>>,
     <<OldCache(OldCacheNames[2]), OldCache(OldCacheNames[1])>>}

CacheIndex(caches, name) ==
    IF \E k \in 1..Len(caches) : caches[k].name = name
    THEN CHOOSE k \in 1..Len(caches) : caches[k].name = name
    ELSE 0

\* caches.open(name): the cache of that name, created at the end if there is none.
CachesOpen(caches, name) ==
    IF CacheIndex(caches, name) = 0
    THEN Append(caches, [name |-> name, entries |-> {}])
    ELSE caches

\* cache.put(request, response): the entry of the request is replaced.
CachePut(caches, name, path, response) ==
    LET k == CacheIndex(caches, name)
    IN  [caches EXCEPT ![k].entries =
           {e \in @ : e.path # path} \cup {[path |-> path, response |-> response]}]

\* cache.addAll(urlsToCache): one entry per url, all or none.
CacheAddAll(caches, name, urls, generation) ==
    LET k == CacheIndex(caches, name)
    IN  [caches EXCEPT ![k].entries =
           {e \in @ : ~Includes(urls, e.path)} \cup
           {[path |-> urls[u], response |-> [status |-> 200, generation |-> generation]] :
              u \in 1..Len(urls)}]

\* caches.delete(name)
CachesDelete(caches, name) == SelectSeq(caches, LAMBDA c : c.name # name)

\* caches.match(request): the entry of the first cache, in creation order, that has one.
CachesMatch(caches, path) ==
    LET hits == {k \in 1..Len(caches) : \E e \in caches[k].entries : e.path = path}
    IN  IF hits = {} THEN NetworkError
        ELSE LET first == CHOOSE k \in hits : \A j \in hits : k <= j
             IN  (CHOOSE e \in caches[first].entries : e.path = path).response

\* Line 43: the test of the fetch listener.
Intercepts(pathname) == Includes(urlsToCache, pathname) \/ pathname = "/"

NewWorker(caches) ==
    [state           |-> "parsed",
     pc              |-> "idle",
     caches          |-> caches,
     cacheNames      |-> <<>>,
     claimed         |-> FALSE,
     events          |-> 0,
     request         |-> "",
     networkResponse |-> NetworkError,
     last            |-> NoFetchEvent]

WorkerUnchanged ==
    UNCHANGED <<pdfVars, messages, uploadedFiles, isDbLoaded, hashJobs, seal, storageObjects,
                firestoreDocs, sealResult, downloads, counters, runs, chat, currentPage, idb,
                loadingState, isComplexMode, proxy>>

\* Lines 12-15: the install event; skipWaiting, then caches.open is awaited.
Install ==
    /\ sw.state = "parsed"
    /\ sw' = [sw EXCEPT !.state = "installing", !.pc = "installOpen"]
    /\ WorkerUnchanged

\* Lines 15-18: caches.open(CACHE_NAME) settles; on success cache.addAll is awaited,
\* on failure the promise given to waitUntil rejects and the worker is discarded.
InstallOpened ==
    /\ sw.pc = "installOpen"
    /\ \/ sw' = [sw EXCEPT !.pc = "addAll", !.caches = CachesOpen(@, CACHE_NAME)]
       \/ sw' = [sw EXCEPT !.pc = "idle", !.state = "redundant"]
    /\ WorkerUnchanged

\* Line 18: cache.addAll settles: every url was fetched and stored, or none is stored.
AddAllSettled ==
    /\ sw.pc = "addAll"
    /\ \/ sw' = [sw EXCEPT !.pc = "idle", !.state = "installed",
                           !.caches = CacheAddAll(@, CACHE_NAME, urlsToCache, 1)]
       \/ sw' = [sw EXCEPT !.pc = "idle", !.state = "redundant"]
    /\ WorkerUnchanged

\* Lines 23-26: the activate event; caches.keys() is awaited.
Activate ==
    /\ sw.state = "installed"
    /\ sw' = [sw EXCEPT !.state = "activating", !.pc = "keys"]
    /\ WorkerUnchanged

\* Lines 26-33: caches.keys() settles and the deletions are started.  When it
\* rejects, the rest of the chain is skipped; the worker is activated all the same.
KeysSettled ==
    /\ sw.pc = "keys"
    /\ \/ sw' = [sw EXCEPT !.pc = "delete",
                           !.cacheNames = [k \in 1..Len(sw.caches) |-> sw.caches[k].name]]
       \/ sw' = [sw EXCEPT !.pc = "idle", !.state = "activated"]
    /\ WorkerUnchanged

RECURSIVE DeleteAll(_, _, _)
\* Lines 28-32: caches.delete for every name that is not in the whitelist.
DeleteAll(caches, names, cacheWhitelist) ==
    IF names = <<>> THEN caches
    ELSE DeleteAll(IF Includes(cacheWhitelist, Head(names)) THEN caches
                   ELSE CachesDelete(caches, Head(names)),
                   Tail(names), cacheWhitelist)

\* Lines 27-34: Promise.all over the deletions settles.  When one of them rejects,
\* clients.claim is skipped; the worker is activated all the same.
DeletesSettled ==
    /\ sw.pc = "delete"
    /\ LET cacheWhitelist == <<CACHE_NAME>>
       IN  \/ sw' = [sw EXCEPT !.pc = "claim",
                               !.caches = DeleteAll(@, sw.cacheNames, cacheWhitelist)]
           \/ \E failed \in {k \in 1..Len(sw.cacheNames) :
                               ~Includes(cacheWhitelist, sw.cacheNames[k])} :
                sw' = [sw EXCEPT !.pc = "idle", !.state = "activated",
                                 !.caches =
                                    DeleteAll(@, [k \in 1..(failed - 1) |-> sw.cacheNames[k]],
                                              cacheWhitelist)]
    /\ WorkerUnchanged

\* Line 34: clients.claim() settles and the activation is over.
ClientsClaimed ==
    /\ sw.pc = "claim"
    /\ sw' = [sw EXCEPT !.pc = "idle", !.state = "activated", !.claimed = TRUE]
    /\ WorkerUnchanged

\* Lines 38-45: a fetch event.  A request the test lets through is left to the
\* browser; for the others respondWith is called and the network fetch is awaited.
FetchEvent ==
    /\ sw.state = "activated"
    /\ sw.pc = "idle"
    /\ sw.events < MaxRequests
    /\ \E pathname \in RequestPaths :
         sw' = IF Intercepts(pathname)
               THEN [sw EXCEPT !.pc = "fetch", !.events = @ + 1, !.request = pathname,
                               !.last = [NoFetchEvent EXCEPT !.path = pathname,
                                                             !.intercepted = TRUE]]
               ELSE [sw EXCEPT !.events = @ + 1,
                               !.last = [NoFetchEvent EXCEPT !.path = pathname]]
    /\ WorkerUnchanged

\* Lines 45-48 and 55-57: fetch(event.request) settles.  Resolved: caches.open is
\* awaited.  Rejected: the catch runs and caches.match is awaited.
NetworkSettled ==
    /\ sw.pc = "fetch"
    /\ \/ \E status \in NetworkStatuses :
            LET networkResponse == [status |-> status, generation |-> 1 + sw.events]
            IN  sw' = [sw EXCEPT !.pc = "cachesOpen",
                                 !.networkResponse = networkResponse,
                                 !.last.network = Fulfilled(networkResponse)]
       \/ sw' = [sw EXCEPT !.pc = "match", !.last.network = Rejected("fetch")]
    /\ WorkerUnchanged

\* Lines 48-53 and 55-57: caches.open(CACHE_NAME) settles.  Resolved: cache.put is
\* called for a 200 (it is not awaited and may fail) and the network response is
\* the result.  Rejected: the catch of line 55 runs and caches.match is awaited.
CacheOpened ==
    /\ sw.pc = "cachesOpen"
    /\ \/ \E putStored \in BOOLEAN :
            LET opened == CachesOpen(sw.caches, CACHE_NAME)
                put    == sw.networkResponse.status = 200
            IN  sw' = [sw EXCEPT !.pc = "idle",
                                 !.caches = IF put /\ putStored
                                            THEN CachePut(opened, CACHE_NAME, sw.request,
                                                          sw.networkResponse)
                                            ELSE opened,
                                 !.last.opened = TRUE,
                                 !.last.put = put,
                                 !.last.received = sw.networkResponse]
       \/ sw' = [sw EXCEPT !.pc = "match"]
    /\ WorkerUnchanged

\* Line 57: caches.match(event.request) settles: the stored entry, or undefined,
\* or a rejection; without a Response the client gets a network error.
MatchSettled ==
    /\ sw.pc = "match"
    /\ \/ sw' = [sw EXCEPT !.pc = "idle", !.last.received = CachesMatch(sw.caches, sw.request)]
       \/ sw' = [sw EXCEPT !.pc = "idle", !.last.received = NetworkError]
    /\ WorkerUnchanged

WorkerNext ==
    \/ Install
    \/ InstallOpened
    \/ AddAllSettled
    \/ Activate
    \/ KeysSettled
    \/ DeletesSettled
    \/ ClientsClaimed
    \/ FetchEvent
    \/ NetworkSettled
    \/ CacheOpened
    \/ MatchSettled

InitWorker ==
    /\ input = None
    /\ PdfIdle
    /\ AppIdle
    /\ isComplexMode = FALSE
    /\ proxy = [pc |-> "idle"]
    /\ sw \in {NewWorker(caches) : caches \in OldCacheLists}

SpecWorker == InitWorker /\ [][WorkerNext]_vars

(***************************************************************************)
(* Reading a document back: which draw operations are what.                *)
(***************************************************************************)
Stage == IF pc = "failed" THEN error ELSE pc

BodyDone == Stage \in {"finalPage", "embedPng", "meta", "save", "done"}

FinalPageAdded == Stage \in {"embedPng", "meta", "save", "done"}

BodyPageIndexes ==
    IF FinalPageAdded THEN 2..(Len(pdf) - 1)
    ELSE IF Stage = "finalPage" THEN 2..Len(pdf)
    ELSE {}

IsFooter(drawOp) ==
    drawOp.op = "text" /\ drawOp.x = Pt(50) /\ drawOp.y = Pt(40) /\ drawOp.size = 8

IsBodyLine(drawOp) ==
    drawOp.op = "text" /\ drawOp.x = Pt(50) /\ drawOp.size = 10

BodyLines(page) == SelectSeq(page, IsBodyLine)

HasText(page, text) == \E k \in 1..Len(page) : page[k].op = "text" /\ page[k].text = text

EmittedLineCount ==
    LET RECURSIVE Sum(_)
        Sum(k) == IF k > Len(pdf) THEN 0
                  ELSE (IF k \in BodyPageIndexes THEN Len(BodyLines(pdf[k])) ELSE 0) + Sum(k + 1)
    IN  Sum(1)

EmbeddedQrImages ==
    IF Len(pdf) = 0 THEN <<>>
    ELSE LET IsImage(drawOp) == drawOp.op = "image" IN SelectSeq(pdf[Len(pdf)], IsImage)

EvidenceDraws == SubSeq(pdf[1], 5, Len(pdf[1]))

FirstEntriesDrawn(n) ==
    /\ Len(EvidenceDraws) = 2 * n
    /\ \A i \in 1..n :
         /\ EvidenceDraws[2 * i - 1].text = <<"* ">> \o input.evidence[i].name
         /\ EvidenceDraws[2 * i].text = <<"  SHA-512: ">> \o input.evidence[i].sha512
         /\ EvidenceDraws[2 * i].y > 0
         /\ EvidenceDraws[2 * i - 1].y > EvidenceDraws[2 * i].y
         /\ i > 1 => EvidenceDraws[2 * i - 2].y > EvidenceDraws[2 * i - 1].y

(***************************************************************************)
(* C1: the pageCount encoded in the QR image embedded on the metadata page *)
(* equals the number of pages of the returned document.                    *)
(***************************************************************************)
C1_QrPageCountIsFinal ==
    pc = "done" =>
        /\ Len(EmbeddedQrImages) = 1
        /\ ParseDec(JSONField(EmbeddedQrImages[1].image.qr, "pageCount")) = Len(pdf)

(***************************************************************************)
(* C2: the last page is added, then the final page count is written into   *)
(* the QR payload, then the QR image is generated, and only then is it     *)
(* embedded; the QR image is never generated before the count is final.    *)
(***************************************************************************)
Before(a, b) ==
    \A j \in 1..Len(events) :
        events[j] = b => \E i \in 1..(j - 1) : events[i] = a

C2_QrGeneratedAfterCountFinal ==
    /\ Before("lastPageAdded", "pageCountWritten")
    /\ Before("pageCountWritten", "qrGenerated")
    /\ Before("qrGenerated", "qrEmbedded")

(***************************************************************************)
(* C3: when performSealingProcess has completed for an existing message,   *)
(* the hash it returns, the hash put in place of every occurrence of the   *)
(* self-referential placeholder in the message content, the sha512 of the  *)
(* message's sealingMetadata and the sha512 of the Firestore record are    *)
(* one value: the digest of the bytes makeSealedPdf returned, which are    *)
(* also the bytes uploaded and downloaded.                                 *)
(***************************************************************************)
Occurrences(content, glyph) == Cardinality({k \in 1..Len(content) : content[k] = glyph})

HashOccurrences(content, hash) ==
    Cardinality({k \in 1..(Len(content) - Len(hash) + 1) :
                    /\ content[k] = hash[1]
                    /\ SubSeq(content, k, k + Len(hash) - 1) = hash})

SealCompleted == seal.pc = "returned"

C3_OneHashEverywhere ==
    SealCompleted =>
      LET digest == stringToHash(result)
          before == seal.messages[seal.messageIndex].content
          sealed == messages[seal.messageIndex]
      IN  /\ sealResult.pdfBytes = result
          /\ sealResult.hash = digest
          /\ sealed.sealingMetadata.sha512 = digest
          /\ sealed.content = sealResult.updatedContent
          /\ ~Includes(sealed.content, ShaPlaceholder)
          /\ HashOccurrences(sealed.content, digest) >= Occurrences(before, ShaPlaceholder)
          /\ downloads[Len(downloads)].data = result
          /\ sealResult.cloudAnchor.status = "confirmed" =>
               /\ \E d \in firestoreDocs :
                    /\ d.id = sealResult.cloudAnchor.firestoreId
                    /\ d.seal = counters.seals
               /\ \A d \in firestoreDocs : d.seal = counters.seals => d.sha512 = digest
               /\ \E o \in storageObjects : o.seal = counters.seals
               /\ \A o \in storageObjects : o.seal = counters.seals => o.bytes = result

C3_Witness ==
    /\ SealCompleted
    /\ sealResult.cloudAnchor.status = "confirmed"
    /\ Occurrences(seal.messages[seal.messageIndex].content, ShaPlaceholder) = 2
    /\ Len(seal.evidence) > 0

(***************************************************************************)
(* C4: whenever performSealingProcess builds the evidence list, every file *)
(* in uploadedFiles has its digest, so every uploaded file is in the       *)
(* evidence passed to makeSealedPdf, whatever the interleaving of uploads, *)
(* hash completions or failures, and seals.                                *)
(***************************************************************************)
C4_AllFilesHaveDigests ==
    seal.pc # "idle" =>
      /\ \A k \in 1..Len(seal.uploadedFiles) : HasDigest(seal.uploadedFiles[k])
      /\ Len(seal.evidence) = Len(seal.uploadedFiles)
      /\ input.evidence = seal.evidence

(***************************************************************************)
(* C5: an evidence list of at most 22 entries has every name and every     *)
(* full digest drawn exactly once on the summary page, in input order.     *)
(***************************************************************************)
C5_AllEvidenceDrawn ==
    (Stage \in {"body"} \cup {"finalPage", "embedPng", "meta", "save", "done"}
     /\ Len(input.evidence) <= 22)
        => FirstEntriesDrawn(Len(input.evidence))

C5_Witness ==
    /\ pc = "done"
    /\ Len(input.evidence) = 22
    /\ input.evidence[1] # input.evidence[22]

(***************************************************************************)
(* C6: of an evidence list longer than 22 exactly the first 22 entries are *)
(* drawn on the summary page, no later entry is drawn on any page, the     *)
(* list opens no further page, and the builder raises no error over it.    *)
(***************************************************************************)
IsEvidenceDraw(drawOp) ==
    /\ drawOp.op = "text"
    /\ Len(drawOp.text) > 0
    /\ drawOp.text[1] \in {"* ", "  SHA-512: "}

IsSummaryPage(page) == HasText(page, <<"Verum Omnis V5">>)

IsMetadataPage(page) == HasText(page, <<"Sealing Metadata">>)

C7_PageOrder ==
    pc = "done" =>
        /\ Len(pdf) >= 2
        /\ \A k \in 1..Len(pdf) : IsSummaryPage(pdf[k]) <=> k = 1
        /\ \A k \in 1..Len(pdf) : IsMetadataPage(pdf[k]) <=> k = Len(pdf)
        /\ (Len(pdf) > 2) <=> (input.messagesHtml # <<>>)
        /\ \A k \in 2..(Len(pdf) - 1) :
             HasText(pdf[k], <<"Conversation Excerpt:">>) <=> k = 2
        /\ input.messagesHtml = <<>> => Len(pdf) = 2

C7_Witness ==
    /\ pc = "done"
    /\ Len(pdf) > 3
    /\ input.messagesHtml # <<>>

(***************************************************************************)
(* C8: no body line is drawn below the bottom margin, a body page is       *)
(* opened only with the cursor below the bottom margin, every page so      *)
(* opened has furniture and the cursor reset to page height minus the top  *)
(* margin; and, for body text without blank lines, the number of body      *)
(* pages is a function of the number of emitted lines: 48 lines fit the    *)
(* first body page and 49 each later one.                                  *)
(***************************************************************************)
NoBlankParagraph(in) ==
    LET paragraphs == Split(in.messagesHtml, "\n")
    IN  \A k \in 1..Len(paragraphs) : Trim(paragraphs[k]) # <<>>

C8_BreakDiscipline ==
    LET noBlank == NoBlankParagraph(input) IN
    /\ \A k \in BodyPageIndexes : \A j \in 1..Len(pdf[k]) :
         IsBodyLine(pdf[k][j]) => pdf[k][j].y >= bottomMargin
    /\ \A i \in 1..Len(breakCursors) : breakCursors[i] < bottomMargin
    /\ Len(breakCursors) = Cardinality(BodyPageIndexes) - 1
    /\ \A k \in BodyPageIndexes : k > 2 =>
         /\ IsFooter(pdf[k][1])
         /\ \A j \in 2..Len(pdf[k]) :
              /\ IsBodyLine(pdf[k][j])
              /\ pdf[k][j].y <= PageHeight - topMargin
              /\ (PageHeight - topMargin - pdf[k][j].y) % lineHeight = 0
         /\ noBlank =>
              Len(pdf[k]) > 1 /\ pdf[k][2].y = PageHeight - topMargin

C8_PagesFollowFromLines ==
    Cardinality(BodyPageIndexes) = 1 + (EmittedLineCount \div 49)

C8_PageBreaks ==
    (BodyDone /\ HasBody(input)) =>
        /\ C8_BreakDiscipline
        /\ NoBlankParagraph(input) => C8_PagesFollowFromLines

C8_Original ==
    (BodyDone /\ HasBody(input)) =>
        /\ C8_BreakDiscipline
        /\ C8_PagesFollowFromLines

C8_Witness ==
    /\ pc = "done"
    /\ NoBlankParagraph(input)
    /\ Len(breakCursors) = 3

(***************************************************************************)
(* C9: every line the word-wrap emits is at most as wide as the content    *)
(* width, or is a single word of the input that is itself wider; such a    *)
(* word is emitted unsplit on a line of its own.                           *)
(***************************************************************************)
InputWords ==
    LET paragraphs == Split(input.messagesHtml, "\n")
    IN  UNION { {Split(paragraphs[k], " ")[j] : j \in 1..Len(Split(paragraphs[k], " "))} :
                k \in 1..Len(paragraphs) }

IsOverWide(text) == widthOfTextAtSize(text, 10) > PageWidth - 2 * Pt(50)

C9_LineWidths ==
    (BodyDone /\ HasBody(input)) =>
        LET words == InputWords IN
        \A k \in BodyPageIndexes : \A j \in 1..Len(pdf[k]) :
            (IsBodyLine(pdf[k][j]) /\ IsOverWide(pdf[k][j].text)) =>
                /\ pdf[k][j].text \in words
                /\ \A c \in 1..Len(pdf[k][j].text) : pdf[k][j].text[c] # " "

C9_Witness ==
    /\ pc = "done"
    /\ \E j \in 1..Len(pdf[2]) : IsBodyLine(pdf[2][j]) /\ IsOverWide(pdf[2][j].text)
    /\ \E j \in 1..Len(pdf[2]) :
         /\ IsBodyLine(pdf[2][j])
         /\ ~IsOverWide(pdf[2][j].text)
         /\ \E c \in 1..Len(pdf[2][j].text) : pdf[2][j].text[c] = " "
         /\ widthOfTextAtSize(pdf[2][j].text, 10) + widthOfTextAtSize(<<" ", "a">>, 10)
              <= PageWidth - 2 * Pt(50)

(***************************************************************************)
(* C10: when the document is serialized every page carries the furniture   *)
(* footer exactly once: the product label, followed, if the first evidence *)
(* entry has a non-empty digest, by the first 16 characters of that digest *)
(* and an ellipsis, never the full digest.                                 *)
(***************************************************************************)
ExpectedFooter ==
    IF Len(input.evidence) > 0 /\ input.evidence[1].sha512 # <<>>
    THEN <<"(tm) Patent Pending Verum Omnis", " | Evidence Hash: ">>
         \o SubSeq(input.evidence[1].sha512, 1, 16) \o <<"...">>
    ELSE <<"(tm) Patent Pending Verum Omnis">>

C10_FurnitureOnEveryPage ==
    Stage \in {"save", "done"} =>
        \A k \in 1..Len(pdf) :
            /\ Len(SelectSeq(pdf[k], IsFooter)) = 1
            /\ SelectSeq(pdf[k], IsFooter)[1].text = ExpectedFooter
            /\ Len(SelectSeq(pdf[k], IsFooter)[1].text) \in {1, 19}

C10_Witness ==
    /\ pc = "done"
    /\ Len(pdf) >= 5
    /\ Len(input.evidence) > 0
    /\ Len(input.evidence[1].sha512) = 128

(***************************************************************************)
(* C11: when font embedding, QR generation, image embedding or             *)
(* serialization fails, makeSealedPdf ends in failure with no bytes        *)
(* returned and takes no further step (no retry, no recovery); the failure *)
(* reaches performSealingProcess, which then computes no hash, uploads     *)
(* nothing, downloads nothing and leaves the message list as it was.       *)
(***************************************************************************)
BuilderFailed == pc = "failed"

FailurePropagated ==
    /\ pc' = "idle"
    /\ seal.pc = "makeSealedPdf"
    /\ seal'.pc = "idle"
    /\ sealResult'.kind = "rejected"
    /\ messages' = messages
    /\ storageObjects' = storageObjects
    /\ firestoreDocs' = firestoreDocs
    /\ downloads' = downloads

C11_FailureIsFatal ==
    [][BuilderFailed =>
         /\ result = NoBytes
         /\ result' = NoBytes
         /\ error \in {"embedFont", "toDataURL", "embedPng", "save"}
         /\ \/ UNCHANGED pdfVars
            \/ FailurePropagated]_vars

C11_Witness ==
    /\ sealResult.kind = "rejected"
    /\ seal.pc = "idle"
    /\ pc = "idle"
    /\ result = NoBytes
    /\ Len(messages) > 0
    /\ counters.seals > 0

(***************************************************************************)
(* C12: every evidence entry performSealingProcess hands to makeSealedPdf  *)
(* carries a non-empty digest that was computed before the call (it is the *)
(* digest recorded for a file of that name in uploadedFiles), and          *)
(* makeSealedPdf works with the digests it was given: it computes none.    *)
(***************************************************************************)
ComputedDigests ==
    {stringToHash(FileBytes(n)) : n \in FileNames} \cup {stringToHash(AlteredBytes)}

C12_EvidenceCarriesDigests ==
    seal.pc # "idle" =>
      /\ \A k \in 1..Len(seal.evidence) :
           /\ seal.evidence[k].sha512 # <<>>
           /\ Len(seal.evidence[k].sha512) = 2 * DigestBytes
           /\ seal.evidence[k].sha512 \in ComputedDigests
           /\ \E j \in 1..Len(seal.uploadedFiles) :
                /\ seal.uploadedFiles[j].name = seal.evidence[k].name
                /\ seal.uploadedFiles[j].sha512 = seal.evidence[k].sha512
      /\ input.evidence = seal.evidence
      /\ pc \in {"summary", "body", "finalPage", "embedPng", "meta", "save", "done"} =>
           qrPayload.sha512 = [k \in 1..Len(seal.evidence) |-> seal.evidence[k].sha512]

C12_Witness ==
    /\ seal.pc = "makeSealedPdf"
    /\ pc = "done"
    /\ Len(seal.evidence) > 0
    /\ \E j \in 1..Len(seal.uploadedFiles) : seal.uploadedFiles[j].sha512 = <<>>

(***************************************************************************)
(* C13: once an uploaded file's sha512 has been set, no later upload, hash *)
(* completion or other action changes that record's sha512 or name, also   *)
(* when another file with the same id is uploaded later; each uploaded     *)
(* file yields exactly one record.                                         *)
(***************************************************************************)
RecordsKept ==
    /\ Len(uploadedFiles') >= Len(uploadedFiles)
    /\ \A k \in 1..Len(uploadedFiles) :
         uploadedFiles[k].sha512 # <<>> =>
           /\ uploadedFiles'[k].sha512 = uploadedFiles[k].sha512
           /\ uploadedFiles'[k].name = uploadedFiles[k].name

OneRecordPerUpload ==
    counters'.uploads > counters.uploads =>
      Len(uploadedFiles') - Len(uploadedFiles) = counters'.jobs - counters.jobs

C13_HashedRecordsImmutable ==
    [][isDbLoaded => RecordsKept /\ OneRecordPerUpload]_vars

(***************************************************************************)
(* C14: two calls of makeSealedPdf with the same input (title, body text,  *)
(* evidence, timestamps, version) give the same number of pages and, page  *)
(* by page, the same sequence of draw operations.                          *)
(***************************************************************************)
SameLayout(first, second) ==
    /\ Len(first) = Len(second)
    /\ \A k \in 1..Len(first) :
         /\ Len(first[k]) = Len(second[k])
         /\ \A j \in 1..Len(first[k]) : first[k][j] = second[k][j]

LabelledLines(page, label) ==
    SelectSeq(page, LAMBDA drawOp : drawOp.op = "text" /\ Len(drawOp.text) > 1
                                      /\ drawOp.text[1] = label)

NumberAfterLabel(page, label) == ParseDec(Tail(LabelledLines(page, label)[1].text))

C15_MetaCounts ==
    pc = "done" =>
      LET final == pdf[Len(pdf)]
      IN  /\ Len(LabelledLines(final, "Page Count: ")) = 1
          /\ NumberAfterLabel(final, "Page Count: ") = Len(pdf)
          /\ Len(LabelledLines(final, "Files: ")) = 1
          /\ NumberAfterLabel(final, "Files: ") = Len(input.evidence)
          /\ \A k \in 1..(Len(pdf) - 1) :
               /\ LabelledLines(pdf[k], "Page Count: ") = <<>>
               /\ LabelledLines(pdf[k], "Files: ") = <<>>

C15_Witness ==
    /\ pc = "done"
    /\ Len(pdf) = 3
    /\ Len(input.evidence) >= 10
    /\ result # NoBytes

(***************************************************************************)
(* C16: for a non-blank paragraph every emitted line holds at least one    *)
(* word (no empty line is drawn, no line height is used without text), and *)
(* the lines in order hold exactly the words of the paragraph in their     *)
(* order, none lost, repeated or split, also when the first word is wider  *)
(* than the content width.                                                 *)
(***************************************************************************)
RECURSIVE LinesFromPage(_)
LinesFromPage(k) ==
    IF k > Len(pdf) THEN <<>>
    ELSE (IF k \in BodyPageIndexes
          THEN [j \in 1..Len(BodyLines(pdf[k])) |-> BodyLines(pdf[k])[j].text]
          ELSE <<>>) \o LinesFromPage(k + 1)

NonEmptyWord(word) == word # <<>>

RECURSIVE WordsOfLines(_, _)
WordsOfLines(lines, k) ==
    IF k > Len(lines) THEN <<>>
    ELSE SelectSeq(Split(lines[k], " "), NonEmptyWord) \o WordsOfLines(lines, k + 1)

SingleParagraph(in) ==
    /\ \A k \in 1..Len(in.messagesHtml) : in.messagesHtml[k] # "\n"
    /\ Trim(in.messagesHtml) # <<>>

C16_WordsInOrder ==
    (BodyDone /\ HasBody(input) /\ SingleParagraph(input)) =>
      WordsOfLines(LinesFromPage(1), 1)
        = SelectSeq(Split(input.messagesHtml, " "), NonEmptyWord)

C16_NoEmptyLine ==
    (BodyDone /\ HasBody(input) /\ NoBlankParagraph(input)) =>
      \A k \in BodyPageIndexes : \A j \in 1..Len(pdf[k]) :
         IsBodyLine(pdf[k][j]) => \E c \in 1..Len(pdf[k][j].text) : pdf[k][j].text[c] # " "

C16_LinesCarryWords == C16_NoEmptyLine /\ C16_WordsInOrder

(***************************************************************************)
(* C17: a blank (empty or whitespace-only) line of body text draws no      *)
(* text, lowers the cursor by one line height, and opens a new page with   *)
(* furniture, resetting the cursor, if the cursor is then below the bottom *)
(* margin; it changes nothing else.                                        *)
(***************************************************************************)
BodyParagraphs(in) == Split(in.messagesHtml, "\n")

BlankIndexes(in) ==
    LET paragraphs == BodyParagraphs(in)
    IN  {k \in 1..Len(paragraphs) : Trim(paragraphs[k]) = <<>>}

\* Blank lines that fit a page before the cursor is below the bottom margin.
BlanksOnFirstPage == ((PageHeight - Pt(100) - bottomMargin) \div lineHeight) + 1

BlanksOnLaterPage == ((PageHeight - topMargin - bottomMargin) \div lineHeight) + 1

ExpectedBlankBreaks(n) ==
    IF n < BlanksOnFirstPage THEN 0 ELSE 1 + ((n - BlanksOnFirstPage) \div BlanksOnLaterPage)

RECURSIVE LinePositions(_)
LinePositions(k) ==
    IF k > Len(pdf) THEN <<>>
    ELSE (IF k \in BodyPageIndexes
          THEN [j \in 1..Len(BodyLines(pdf[k])) |-> [page |-> k, y |-> BodyLines(pdf[k])[j].y]]
          ELSE <<>>) \o LinePositions(k + 1)

C17_OnlyBlankLines(n) ==
    LET breaks == ExpectedBlankBreaks(n)
    IN  /\ EmittedLineCount = 0
        /\ Len(breakCursors) = breaks
        /\ Cardinality(BodyPageIndexes) = 1 + breaks
        /\ \A i \in 1..Len(breakCursors) :
             breakCursors[i] = IF i = 1
                               THEN PageHeight - Pt(100) - BlanksOnFirstPage * lineHeight
                               ELSE PageHeight - topMargin - BlanksOnLaterPage * lineHeight
        /\ \A k \in BodyPageIndexes :
             /\ IsFooter(pdf[k][1])
             /\ Len(pdf[k]) = IF k = 2 THEN 2 ELSE 1

\* One blank line, the paragraph b of n, between two lines of text.
C17_OneBlankLine(b, n) ==
    LET at == LinePositions(1)
    IN  (b > 1 /\ b < n /\ Len(at) = n - 1) =>
          IF at[b].page = at[b - 1].page
          THEN at[b - 1].y - at[b].y = 2 * lineHeight
          ELSE /\ at[b].page = at[b - 1].page + 1
               /\ at[b].y = PageHeight - topMargin
               /\ at[b - 1].y - 2 * lineHeight < bottomMargin

C17_BlankLines ==
    (BodyDone /\ HasBody(input)) =>
      LET n == Len(BodyParagraphs(input))
          blank == BlankIndexes(input)
      IN  /\ Cardinality(blank) = n => C17_OnlyBlankLines(n)
          /\ Cardinality(blank) = 1 => C17_OneBlankLine(CHOOSE k \in blank : TRUE, n)

C17_Witness ==
    /\ pc = "done"
    /\ Cardinality(BlankIndexes(input)) = Len(BodyParagraphs(input))
    /\ Len(breakCursors) = 2
    /\ Len(pdf) = 5

C17_WitnessOneBlank ==
    /\ pc = "done"
    /\ Cardinality(BlankIndexes(input)) = 1
    /\ Len(LinePositions(1)) = 48
    /\ LinePositions(1)[48].page = 3
    /\ LinePositions(1)[47].page = 2

(***************************************************************************)
(* C18: the digest list and the filename list of the QR payload have the   *)
(* length of the input evidence list and entry i of both comes from        *)
(* evidence entry i, entries dropped from the summary page included; the   *)
(* evidence in the payload and the evidence drawn on the summary page      *)
(* differ only when the list is longer than the summary page holds.        *)
(***************************************************************************)
DrawnEvidence ==
    {<<Tail(EvidenceDraws[2 * i - 1].text), Tail(EvidenceDraws[2 * i].text)>> :
        i \in 1..(Len(EvidenceDraws) \div 2)}

C18_PayloadCoversEvidence ==
    pc = "done" =>
      LET qr == EmbeddedQrImages[1].image.qr
          digests == JSONField(qr, "sha512")
          filenames == JSONField(qr, "filenames")
          encoded == {<<filenames[i], digests[i]>> : i \in 1..Len(digests)}
      IN  /\ Len(digests) = Len(input.evidence)
          /\ Len(filenames) = Len(input.evidence)
          /\ \A i \in 1..Len(input.evidence) :
               /\ digests[i] = input.evidence[i].sha512
               /\ filenames[i] = input.evidence[i].name
          /\ qrPayload.sha512 = digests
          /\ qrPayload.filenames = filenames
          /\ DrawnEvidence \subseteq encoded
          /\ encoded # DrawnEvidence => Len(input.evidence) > 22

C18_Witness ==
    /\ pc = "done"
    /\ Len(input.evidence) = 24
    /\ JSONField(EmbeddedQrImages[1].image.qr, "filenames")[24] = NameOf(24)
    /\ \A k \in 1..Len(EvidenceDraws) : Tail(EvidenceDraws[k].text) # NameOf(24)

(***************************************************************************)
(* C19: a zero-byte file is not skipped by hashing.  Every file passed to  *)
(* handleFilesChange, whatever its size, has a hashing job started and,    *)
(* once the job resolves, is listed by name with its digest in the         *)
(* evidence of a later seal.  Files whose file object has size 0 (zero-byte*)
(* uploads and the placeholders restored from storage) are left out of the *)
(* analysis payload only; a restored file is never hashed again, and it is *)
(* in the sealed evidence exactly when a digest was saved for it.          *)
(***************************************************************************)
IsRestored(f) == f.file.lastModified = LoadTime

\* handleFilesChange starts one job per file it was passed, empty or not.
JobPerFile ==
    counters'.uploads > counters.uploads =>
      \A k \in (Len(uploadedFiles) + 1)..Len(uploadedFiles') :
         \E j \in hashJobs' \ hashJobs : j.newFile = uploadedFiles'[k]

\* A job that resolves leaves the digest of its file on the record of that file,
\* where the list still holds the record.
ResolvedJobSetsDigest ==
    \A j \in hashJobs \ hashJobs' :
       uploadedFiles' # uploadedFiles =>
         \A k \in 1..Len(uploadedFiles) :
            uploadedFiles[k].file = j.newFile.file /\ uploadedFiles[k].id = j.newFile.id =>
              uploadedFiles'[k].sha512 = stringToHash(j.newFile.file.bytes)

\* A record made by handleFilesChange stays in the list.
UploadsKept ==
    \A k \in 1..Len(uploadedFiles) :
       ~IsRestored(uploadedFiles[k]) =>
         \E i \in 1..Len(uploadedFiles') : uploadedFiles'[i].file = uploadedFiles[k].file

\* The evidence of a seal lists, by name and digest, the records that carry a digest.
DigestedAreListed ==
    seal.pc = "makeSealedPdf" =>
      \A k \in 1..Len(seal.uploadedFiles) :
         HasDigest(seal.uploadedFiles[k]) <=>
           \E e \in 1..Len(seal.evidence) :
              /\ seal.evidence[e].name = seal.uploadedFiles[k].name
              /\ seal.evidence[e].sha512 = seal.uploadedFiles[k].sha512

\* The analysis payload is the file list without the files of size 0.
PayloadLeavesOutEmpty ==
    chat.pc = "routeUserIntent" =>
      /\ \A k \in 1..Len(chat.filesToAnalyze) : chat.filesToAnalyze[k].file.size > 0
      /\ \A k \in 1..Len(chat.uploadedFiles) :
            chat.uploadedFiles[k].file.size > 0 =>
              \E i \in 1..Len(chat.filesToAnalyze) :
                 chat.filesToAnalyze[i] = chat.uploadedFiles[k]

\* No hashing job reads a restored placeholder.
RestoredNeverHashed == \A j \in hashJobs : ~IsRestored(j.newFile)

\* A restored record has a digest exactly when one was saved for it.
RestoredDigestAsSaved ==
    isDbLoaded =>
      \A k \in 1..Len(uploadedFiles) :
         IsRestored(uploadedFiles[k]) =>
           /\ k <= Len(uploadedFiles')
           /\ uploadedFiles'[k].id = uploadedFiles[k].id
           /\ HasDigest(uploadedFiles'[k]) <=> HasDigest(uploadedFiles[k])

C19_EmptyFilesAreHashed ==
    /\ [](DigestedAreListed /\ PayloadLeavesOutEmpty /\ RestoredNeverHashed)
    /\ [][JobPerFile /\ ResolvedJobSetsDigest]_vars

C19_RestoredAsSaved == [][RestoredDigestAsSaved]_vars

C19_UploadsStayListed == [][UploadsKept]_vars

C19_EmptyFiles == C19_EmptyFilesAreHashed /\ C19_UploadsStayListed /\ C19_RestoredAsSaved

\* A seal whose evidence lists the zero-byte b.txt with the digest of no bytes,
\* while a prompt's payload leaves the same file out.
C19_WitnessZeroByte ==
    /\ seal.pc = "makeSealedPdf"
    /\ \E e \in 1..Len(seal.evidence) :
          /\ seal.evidence[e].name = <<"b.txt">>
          /\ seal.evidence[e].sha512 = stringToHash(<<>>)
    /\ \E k \in 1..Len(seal.uploadedFiles) :
          /\ ~IsRestored(seal.uploadedFiles[k])
          /\ seal.uploadedFiles[k].file.size = 0

(***************************************************************************)
(* C20: sealing does not lose concurrent updates to the chat.  A message   *)
(* appended to the list while performSealingProcess is suspended is still  *)
(* in the list after the sealed message has been written back, and the     *)
(* sealed message is the only one that changes.                            *)
(***************************************************************************)
\* The step in which performSealingProcess calls setMessages (line 600).
SealWritesBack == seal.pc \in {"getCurrentUser", "uploadBytes", "setDoc"} /\ seal'.pc = "returned"

AppendedDuringSeal == Len(messages) > Len(seal.messages)

MessagesKept ==
    /\ Len(messages') = Len(messages)
    /\ \A k \in 1..Len(messages) :
          /\ messages'[k].id = messages[k].id
          /\ k # seal.messageIndex => messages'[k] = messages[k]

C20_NoLostMessages == [][SealWritesBack => MessagesKept]_vars

\* With no message appended during the seal the list is kept and only the
\* sealed message changes.
C20_QuietSealKeepsMessages ==
    [][SealWritesBack /\ ~AppendedDuringSeal => MessagesKept]_vars

\* A seal has written back over a list that had grown while it was suspended.
C20_WitnessOverwritten ==
    /\ seal.pc = "returned"
    /\ Len(messages) = Len(seal.messages)
    /\ counters.uploads + counters.sends > 0
    /\ \A k \in 1..Len(messages) : messages[k].id \notin {"file-upload", MessageId("user", 1)}

(***************************************************************************)
(* C21: the persisted case is never overwritten by the state the component *)
(* has before loading.  idb.saveCase is not invoked before the initial     *)
(* idb.loadCase has completed, every save happens while the current page   *)
(* is 'firewall', and each save writes the messages and files of that      *)
(* moment, the files without their raw file object.                        *)
(***************************************************************************)
SaveInvoked == idb' # idb

NoFileObject(f) == DOMAIN f = {"id", "name", "size", "sha512"}

SavesCurrentCase ==
    /\ isDbLoaded'
    /\ currentPage' = "firewall"
    /\ idb'.messages = messages'
    /\ Len(idb'.files) = Len(uploadedFiles')
    /\ \A k \in 1..Len(uploadedFiles') :
          /\ NoFileObject(idb'.files[k])
          /\ \A field \in {"id", "name", "size", "sha512"} :
                idb'.files[k][field] = uploadedFiles'[k][field]

NothingSavedBeforeLoad == ~isDbLoaded => idb = [kind |-> "none"]

C21_SaveAfterLoadOnFirewall ==
    /\ []NothingSavedBeforeLoad
    /\ [][SaveInvoked => SavesCurrentCase]_vars

\* A save has written an upload made on the firewall page, and the case has
\* since changed on another page without a save.
C21_Witness ==
    /\ isDbLoaded
    /\ currentPage = "tax"
    /\ idb # [kind |-> "none"]
    /\ Len(idb.files) > 0
    /\ \E k \in 1..Len(idb.files) : idb.files[k].sha512 # uploadedFiles[k].sha512

(***************************************************************************)
(* C22: in both proxy handlers the upstream API is contacted only for a    *)
(* POST with the API key configured.  OPTIONS is answered 204, any other   *)
(* method but POST 405, a missing key 500, each without an upstream call;  *)
(* a POST with a key relays the upstream status and body, and a failure of *)
(* the upstream call yields 500.  Every request gets exactly one response  *)
(* and every response carries the CORS headers.                            *)
(***************************************************************************)
ProxyBusy == proxy.pc # "idle"

ProxyAnswered == proxy.pc = "done"

UpstreamOnlyForKeyedPost ==
    ProxyBusy /\ Len(proxy.upstream) > 0 =>
      /\ proxy.req.method = "POST"
      /\ proxy.key # ""
      /\ Len(proxy.upstream) = 1
      /\ proxy.upstream[1].body = proxy.req.body

OneResponseWithCors ==
    ProxyBusy =>
      /\ Len(proxy.responses) = (IF ProxyAnswered THEN 1 ELSE 0)
      /\ \A k \in 1..Len(proxy.responses) : CorsHeaders \subseteq proxy.responses[k].headers

AnsweredAsSpecified ==
    ProxyAnswered =>
      LET res == proxy.responses[1]
          last == proxy.settled[Len(proxy.settled)]
      IN  CASE proxy.req.method = "OPTIONS" ->
                 res.status = 204 /\ proxy.upstream = <<>>
            [] proxy.req.method \notin {"OPTIONS", "POST"} ->
                 res.status = 405 /\ proxy.upstream = <<>>
            [] proxy.req.method = "POST" /\ proxy.key = "" ->
                 res.status = 500 /\ proxy.upstream = <<>>
            [] OTHER ->
                 /\ Len(proxy.upstream) = 1
                 /\ IF last.status = 0
                    THEN res.status = 500
                    ELSE res.status = last.status /\ res.body = last.text

C22_ProxyResponses == UpstreamOnlyForKeyedPost /\ OneResponseWithCors /\ AnsweredAsSpecified

\* An upstream 429 relayed to the client of geminiProxy with its body.
C22_Witness ==
    /\ ProxyAnswered
    /\ proxy.fn = "geminiProxy"
    /\ Len(proxy.upstream) = 1
    /\ proxy.responses[1].status = 429
    /\ proxy.responses[1].body = <<"upstream error">>

\* A GET turned away with 405 by openaiProxy although the key is configured.
C22_WitnessRefused ==
    /\ ProxyAnswered
    /\ proxy.fn = "openaiProxy"
    /\ proxy.req.method = "GET"
    /\ proxy.key # ""
    /\ proxy.responses[1].status = 405

(***************************************************************************)
(* C23: a failure of the cloud anchor never aborts a seal.  When the       *)
(* authentication, the storage upload or the Firestore write fails after   *)
(* the PDF was built, performSealingProcess still returns the bytes and    *)
(* their hash with cloudAnchor status 'failed', puts 'N/A' in place of the *)
(* cloud-anchor and Firestore-record placeholders and writes the hash into *)
(* the message.  The status is 'confirmed' only if a user was              *)
(* authenticated and the upload and the write succeeded, in that order.    *)
(***************************************************************************)
InCloudAnchor == seal.pc \in {"getCurrentUser", "uploadBytes", "setDoc"}

\* The cloud anchor block is left only forwards or by the return of the seal.
AnchorNeverAborts ==
    InCloudAnchor /\ seal'.pc # seal.pc =>
      \/ /\ seal.pc = "getCurrentUser" /\ seal'.pc = "uploadBytes"
         /\ seal'.storagePath # <<>>
      \/ /\ seal.pc = "uploadBytes" /\ seal'.pc = "setDoc"
         /\ \E o \in storageObjects' \ storageObjects :
               o.path = seal.storagePath /\ o.bytes = seal.pdfBytes
      \/ SealWritesBack

SealReturnsPdf ==
    SealWritesBack =>
      LET sealed == messages'[seal.messageIndex]
      IN  /\ sealResult'.kind = "sealed"
          /\ sealResult'.pdfBytes = seal.pdfBytes
          /\ sealResult'.hash = stringToHash(seal.pdfBytes)
          /\ sealResult'.cloudAnchor.status \in {"confirmed", "failed"}
          /\ sealed.sealingMetadata.sha512 = sealResult'.hash
          /\ sealed.sealingMetadata.cloudAnchor = sealResult'.cloudAnchor
          /\ sealed.content = sealResult'.updatedContent

FailedAnchorLeavesNA ==
    SealWritesBack /\ sealResult'.cloudAnchor.status = "failed" =>
      LET before == seal.messages[seal.messageIndex].content
          after  == messages'[seal.messageIndex].content
      IN  /\ ~Includes(after, ShaPlaceholder)
          /\ ~Includes(after, CloudPlaceholder)
          /\ ~Includes(after, FirestorePlaceholder)
          /\ Occurrences(after, "N/A") =
               Occurrences(before, "N/A") + Occurrences(before, CloudPlaceholder)
               + Occurrences(before, FirestorePlaceholder)
          /\ HashOccurrences(after, sealResult'.hash) >= Occurrences(before, ShaPlaceholder)
          /\ firestoreDocs' = firestoreDocs

ConfirmedOnlyAfterAll ==
    SealWritesBack /\ sealResult'.cloudAnchor.status = "confirmed" =>
      /\ seal.pc = "setDoc"
      /\ seal.storagePath # <<>>
      /\ sealResult'.cloudAnchor.storagePath = seal.storagePath
      /\ \E o \in storageObjects :
            o.path = seal.storagePath /\ o.bytes = seal.pdfBytes /\ o.seal = counters.seals
      /\ \E d \in firestoreDocs' \ firestoreDocs :
            /\ d.id = sealResult'.cloudAnchor.firestoreId
            /\ d.sha512 = sealResult'.hash
            /\ d.storagePath = seal.storagePath

C23_AnchorFailureIsNotFatal ==
    [][AnchorNeverAborts /\ SealReturnsPdf /\ FailedAnchorLeavesNA /\ ConfirmedOnlyAfterAll]_vars

\* The upload succeeded and the Firestore write failed: the seal has returned
\* with a failed anchor, N/A in the message, and the object left in storage.
C23_Witness ==
    /\ SealCompleted
    /\ sealResult.cloudAnchor.status = "failed"
    /\ sealResult.cloudAnchor.error = "setDoc"
    /\ Includes(messages[seal.messageIndex].content, "N/A")
    /\ messages[seal.messageIndex].sealingMetadata.sha512 = sealResult.hash
    /\ \E o \in storageObjects : o.seal = counters.seals

(***************************************************************************)
(* C24: in a complex-mode scan the synthesis of the report is invoked if   *)
(* and only if at least one of the two concurrent preliminary analyses     *)
(* succeeded, and only after both have settled.  If both fail, neither the *)
(* synthesis nor the verification is called and exactly one error message  *)
(* is appended.  In every outcome loadingState ends at 'idle'.             *)
(***************************************************************************)
InComplexScan ==
    chat.pc \in {"getPreliminaryAnalysis", "synthesizeFinalReport"}
    \/ (chat.pc \in {"performAutomaticVerification", "verified"} /\ chat.isComplexMode)

OneSucceeded ==
    chat.geminiResult.status = "fulfilled" \/ chat.openAIResult.status = "fulfilled"

\* The call resumes after the two analyses.
PreliminaryLeft == chat.pc = "getPreliminaryAnalysis" /\ chat'.pc # "getPreliminaryAnalysis"

SynthesisIffOneSucceeded ==
    /\ chat'.pc = "synthesizeFinalReport" /\ chat.pc # "synthesizeFinalReport" => PreliminaryLeft
    /\ PreliminaryLeft =>
         /\ chat.isComplexMode
         /\ chat.geminiResult.status # "pending"
         /\ chat.openAIResult.status # "pending"
         /\ chat'.pc = "synthesizeFinalReport" <=> OneSucceeded
         /\ ~OneSucceeded =>
              /\ chat'.pc = "idle"
              /\ Len(messages') = Len(messages) + 1
              /\ SubSeq(messages', 1, Len(messages)) = messages
              /\ messages'[Len(messages')].id = MessageId("error", chat.n)

ComplexScanEndsIdle ==
    InComplexScan /\ chat'.pc = "idle" =>
      /\ loadingState' = "idle"
      /\ Len(messages') = Len(messages) + 1

C24_SynthesisAfterBothSettled == [][SynthesisIffOneSucceeded /\ ComplexScanEndsIdle]_vars

\* The synthesis is awaited after Gemini's analysis failed and OpenAI's succeeded.
C24_Witness ==
    /\ chat.pc = "synthesizeFinalReport"
    /\ chat.geminiResult.status = "rejected"
    /\ chat.openAIResult.status = "fulfilled"
    /\ loadingState = "synthesizing"

\* Both analyses have failed and the call has ended with the one error message.
C24_WitnessBothFailed ==
    /\ chat.pc = "idle"
    /\ loadingState = "idle"
    /\ isComplexMode
    /\ Len(messages) = 3
    /\ messages[3].id = MessageId("error", 1)
    /\ messages[3].content[2] = "Both Gemini and OpenAI analyses failed."

(***************************************************************************)
(* C25: if the combined size of the non-empty uploaded files exceeds 30 MB *)
(* handleSendMessage appends the user message and exactly one error        *)
(* message, makes no remote call and leaves loadingState unchanged; if the *)
(* combined size is at most 30 MB the check blocks nothing.                *)
(* As stated this fails when a file cannot be read: the call then rejects  *)
(* before the check and no error message is appended.  C25_SizeLimit is    *)
(* the statement with that case told apart.                                *)
(***************************************************************************)
NonEmptyFiles == SelectSeq(chat.uploadedFiles, LAMBDA f : f.file.size > 0)

CombinedSize == TotalSize(NonEmptyFiles, Len(NonEmptyFiles))

\* The step in which the reads settle and the call goes on or ends.
ReadsSettle == chat.pc = "getBase64" /\ chat'.pc # "getBase64"

UserMessageAppended == messages[Len(messages)].id = MessageId("user", chat.n)

OneErrorMessageNoCall ==
    /\ UserMessageAppended
    /\ Len(messages') = Len(messages) + 1
    /\ SubSeq(messages', 1, Len(messages)) = messages
    /\ messages'[Len(messages')].id = MessageId("error", chat.n)
    /\ chat'.pc = "idle"
    /\ loadingState' = loadingState

\* A read has failed: the call ends with nothing but the user's message.
ReadFailed ==
    /\ Len(NonEmptyFiles) > 0
    /\ UserMessageAppended
    /\ messages' = messages
    /\ chat'.pc = "idle"
    /\ loadingState' = loadingState

NothingBlocked ==
    /\ messages' = messages
    /\ chat'.pc = "routeUserIntent"
    /\ chat'.filesToAnalyze = NonEmptyFiles

C25_Original ==
    [][ReadsSettle =>
         IF CombinedSize > 30 * 1024 * 1024
         THEN OneErrorMessageNoCall
         ELSE messages' = messages]_vars

C25_SizeLimit ==
    [][ReadsSettle =>
         IF CombinedSize > 30 * 1024 * 1024
         THEN OneErrorMessageNoCall \/ ReadFailed
         ELSE NothingBlocked \/ ReadFailed]_vars

\* A prompt over 30 MB and 1 byte of files has ended with the error message.
C25_Witness ==
    /\ chat.pc = "idle"
    /\ counters.sends = 1
    /\ loadingState = "idle"
    /\ TotalSize(uploadedFiles, Len(uploadedFiles)) = 30 * 1024 * 1024 + 1
    /\ Len(messages) = 3
    /\ messages[3].id = MessageId("error", 1)

\* A payload of exactly 30 MB has passed the check.
C25_WitnessAtLimit ==
    /\ chat.pc = "routeUserIntent"
    /\ TotalSize(chat.filesToAnalyze, Len(chat.filesToAnalyze)) = 30 * 1024 * 1024

(***************************************************************************)
(* C26: performAutomaticVerification never throws and always returns a     *)
(* result with 3 <= verifiedCount <= totalVoters = 5, where verifiedCount  *)
(* is 3 plus the number of the two audits whose result starts with 'APK    *)
(* Audit Passed' (exactly 3 if either audit call fails).  The notes are    *)
(* 'All checks passed.' if and only if verifiedCount is 5, and the         *)
(* consensus text depends on verifiedCount alone and is never 'Consensus   *)
(* Pending'.                                                               *)
(***************************************************************************)
VerificationReturned == chat.pc = "verified"

PassedAudits ==
    Cardinality({a \in {"consumer", "enterprise"} :
                   LET audit == IF a = "consumer" THEN chat.consumerResult
                                ELSE chat.enterpriseResult
                   IN  /\ audit.status = "fulfilled"
                       /\ audit.value # <<>>
                       /\ audit.value[1] = "APK Audit Passed"})

AnAuditFailed ==
    chat.consumerResult.status = "rejected" \/ chat.enterpriseResult.status = "rejected"

ResultAsSpecified ==
    VerificationReturned =>
      LET v == chat.verificationResult
      IN  /\ v.totalVoters = 5
          /\ 3 <= v.verifiedCount /\ v.verifiedCount <= v.totalVoters
          /\ v.verifiedCount = (IF AnAuditFailed THEN 3 ELSE 3 + PassedAudits)
          /\ v.notes = <<"All checks passed.">> <=> v.verifiedCount = 5
          /\ v.consensusText # "Consensus Pending"
          /\ v.consensusText = (CASE v.verifiedCount = 5 -> "Full Ecosystem Consensus"
                                  [] v.verifiedCount = 4 -> "Quadruple Verification Consensus"
                                  [] OTHER -> "Triple Verification Consensus")

\* The verification is left only by its return: no path of it reaches the catch
\* of handleSendMessage.
VerificationNeverThrows ==
    chat.pc = "performAutomaticVerification" /\ chat'.pc # chat.pc =>
      /\ chat'.pc = "verified"
      /\ messages' = messages

C26_VerificationResult == []ResultAsSpecified /\ [][VerificationNeverThrows]_vars

\* One audit passed and the other failed to run: the count stays at 3.
C26_Witness ==
    /\ VerificationReturned
    /\ chat.consumerResult.status = "fulfilled"
    /\ chat.consumerResult.value[1] = "APK Audit Passed"
    /\ chat.enterpriseResult.status = "rejected"
    /\ chat.verificationResult.verifiedCount = 3

\* One audit passed and the other returned notes: four of five.
C26_WitnessFour ==
    /\ VerificationReturned
    /\ chat.verificationResult.verifiedCount = 4
    /\ chat.verificationResult.consensusText = "Quadruple Verification Consensus"
    /\ chat.verificationResult.notes # <<"All checks passed.">>

(***************************************************************************)
(* C27: for app-shell requests the service worker is network-first:        *)
(* whenever the network fetch resolves, that network response is what the  *)
(* client receives (whatever its status) and it is written to the current  *)
(* cache only if its status is 200; the cached copy is served only when    *)
(* the network fetch fails; requests whose path is not in the app-shell    *)
(* list are never intercepted; and after activation no cache other than    *)
(* the current cache name exists.                                          *)
(***************************************************************************)
FetchEventOver == sw.pc = "idle" /\ sw.last.path # ""

NetworkResolved == sw.last.network.status = "fulfilled"

NetworkResponseReceived ==
    FetchEventOver /\ sw.last.intercepted /\ NetworkResolved =>
      sw.last.received = sw.last.network.value

PutOnlyFor200 ==
    /\ sw.last.put => NetworkResolved /\ sw.last.network.value.status = 200
    /\ \A k \in 1..Len(sw.caches) : \A e \in sw.caches[k].entries :
         sw.caches[k].name = CACHE_NAME => e.response.status = 200

\* The client was answered by the catch of line 55, not by the network response.
ServedFromCatch == FetchEventOver /\ sw.last.intercepted /\ ~sw.last.opened

CacheOnlyWhenNetworkFails == ServedFromCatch => ~NetworkResolved

OthersNotIntercepted ==
    sw.last.path # "" /\ ~Includes(urlsToCache, sw.last.path) => ~sw.last.intercepted

OnlyCurrentCache == \A k \in 1..Len(sw.caches) : sw.caches[k].name = CACHE_NAME

OnlyCurrentCacheAfterActivation == sw.state = "activated" => OnlyCurrentCache

C27_NetworkFirst ==
    /\ NetworkResponseReceived
    /\ PutOnlyFor200
    /\ CacheOnlyWhenNetworkFails
    /\ OthersNotIntercepted
    /\ OnlyCurrentCacheAfterActivation

\* What holds: the network response is received whenever both the fetch and
\* caches.open resolve; the catch answers from the caches whenever either rejects;
\* only a 200 is put; the app-shell paths and no others are intercepted; and the
\* old caches are gone whenever the activation chain ran to clients.claim.
C27_NetworkFirstWhenCacheOpens ==
    /\ FetchEventOver /\ sw.last.intercepted /\ sw.last.opened =>
         NetworkResolved /\ sw.last.received = sw.last.network.value
    /\ ServedFromCatch =>
         sw.last.received \in {CachesMatch(sw.caches, sw.last.path), NetworkError}
    /\ PutOnlyFor200
    /\ sw.last.path # "" => (sw.last.intercepted <=> Includes(urlsToCache, sw.last.path))
    /\ sw.claimed => OnlyCurrentCache

\* The network answered, caches.open rejected, and the client got the entry that
\* the install stored instead of the network response.
C27_WitnessStaleCopy ==
    /\ FetchEventOver
    /\ sw.last.intercepted
    /\ NetworkResolved
    /\ ~sw.last.opened
    /\ sw.last.received.generation = 1
    /\ sw.last.network.value.generation = 2

\* The worker is activated although a deletion failed: an old cache is still there.
C27_WitnessOldCacheLeft ==
    /\ sw.state = "activated"
    /\ ~sw.claimed
    /\ ~OnlyCurrentCache
====
